---- MODULE Spec2Model ----
(***************************************************************************)
(* Visub: subtitle assembly (src/visub/cli.py, get_subtitles) as a state   *)
(* machine.  One run of get_subtitles over one audio input: the word       *)
(* chunking loops, the style resolution, the Dialogue event synthesis and  *)
(* the SRT fallback.                                                       *)
(*                                                                         *)
(* Representation.  A word's text is a sequence of one-character strings.  *)
(* A text written to a track is a sequence of tokens: characters and       *)
(* override tags.  A timestamp is an integer number of milliseconds (the   *)
(* transcriber's float seconds times 1000); the float arithmetic of        *)
(* round() and ass_time() is reproduced by the tables below.               *)
(***************************************************************************)
EXTENDS Integers, Sequences, FiniteSets, TLC

VARIABLES
    config,            \* the SubtitleConfig of this run
    result,            \* transcribe(audio_path)["segments"]
    pc,                \* position in get_subtitles
    seg,               \* index of the segment being chunked
    pos,               \* index of the next word (or window start) in the segment
    current_sentence,  \* sentence mode: the running buffer
    subtitle_groups,   \* the groups built so far
    gi,                \* index of the next group to emit
    styles,            \* the style table written to the .ass file
    events,            \* the Dialogue events written to the .ass file
    origin,            \* per event: the group it was written for and its word index
    srt,               \* the entries written to the .srt file
    audio_paths,       \* the batch: per input its base name and what transcribe does
    input,             \* index of the input being processed
    raised,            \* the exception that left get_subtitles, or None
    files,             \* the output directory: per file name its file, or NoFile
    jobs,              \* process_video: per concurrent job its position and file accesses
    tempdir,           \* process_video: the files of tempfile.gettempdir()
    config_dict,       \* validate_config: the dictionary under validation
    validation,        \* validate_config: what the call gave, or None before the call
    conversion,        \* a colour on its way through hex_to_ass_color and _ass_to_hex
    parsed,            \* _parse_subtitle_config: what the call gave
    clock,             \* webapp: the time, in units of which FILE_RETENTION is two
    redis,             \* webapp: the value stored under job:{job_id}, or NoRecord
    jobdir,            \* webapp: the directory UPLOAD_DIR/{job_id}, or NoDir
    upload,            \* webapp: the upload_video request of the job
    task,              \* webapp: the process_video_task of the job
    deletion,          \* webapp: a delete_job request for the job
    response           \* webapp: what the last download_file request answered

\* the loop over the inputs of get_subtitles
batchVars == <<audio_paths, input, raised>>

\* the colour conversion and the configuration parser
helperVars == <<conversion, parsed>>

\* the web application around one job
webVars == <<clock, redis, jobdir, upload, task, deletion, response>>

\* the state of VisubAPI.process_video and VisubAPI.validate_config, of the
\* helpers and of the web application
apiVars == <<jobs, tempdir, config_dict, validation, helperVars, webVars>>

vars == <<config, result, pc, seg, pos, current_sentence, subtitle_groups,
          gi, styles, events, origin, srt, batchVars, files, apiVars>>

-----------------------------------------------------------------------------
(* Program constants *)

\* cli.py:181  `if config.max_words_per_subtitle >= 999:  # Full sentence mode`
FullSentence == 999

\* cli.py:190  `len(current_sentence) >= 50`
SentenceCap == 50

\* cli.py:190  `word_text.endswith(('.', '!', '?', ':', ';'))`
Terminators == {".", "!", "?", ":", ";"}

\* the characters str.strip() removes
Whitespace == {" ", "\n", "\t"}

\* word.get("speaker", None) of a word without a speaker label
None == "None"

-----------------------------------------------------------------------------
(* Bounds of the model *)

MaxWindow == 3       \* fixed windows W in 1..MaxWindow (and FullSentence - 1)
MaxWords == 3        \* words of a short transcription, over all its segments
MaxSegments == 2     \* segments of a short transcription
MaxLongLen == 60     \* words of the long single-segment transcriptions
MaxStyles == 2       \* entries of config.speaker_styles
MaxTimedWords == 2   \* words of the transcriptions with sampled timestamps
MaxInputs == 2       \* inputs of a batch of get_subtitles
MaxJobs == 2         \* concurrent invocations of process_video
MaxSpeakers == 2     \* entries of the speakers list given to validate_config

-----------------------------------------------------------------------------
(* Sequences and text *)

Last(s) == s[Len(s)]

\* the sequences of ss one after the other (by halves: the recursion stays
\* shallow on long inputs)
RECURSIVE Concat(_)
Concat(ss) ==
    IF ss = <<>> THEN <<>>
    ELSE IF Len(ss) = 1 THEN ss[1]
    ELSE LET half == Len(ss) \div 2
         IN  Concat(SubSeq(ss, 1, half)) \o Concat(SubSeq(ss, half + 1, Len(ss)))

\* sep.join(parts): parts separated by sep, no separator at either end
RECURSIVE Join(_, _)
Join(sep, parts) ==
    IF parts = <<>> THEN <<>>
    ELSE IF Len(parts) = 1 THEN parts[1]
    ELSE LET half == Len(parts) \div 2
         IN  Join(sep, SubSeq(parts, 1, half)) \o sep
             \o Join(sep, SubSeq(parts, half + 1, Len(parts)))

RECURSIVE LStrip(_)
LStrip(s) == IF s # <<>> /\ Head(s) \in Whitespace THEN LStrip(Tail(s)) ELSE s

RECURSIVE RStrip(_)
RStrip(s) ==
    IF s # <<>> /\ Last(s) \in Whitespace THEN RStrip(SubSeq(s, 1, Len(s) - 1)) ELSE s

\* str.strip()
Strip(s) == RStrip(LStrip(s))

\* str.upper() on the model's alphabet
UpperChar(c) ==
    CASE c = "a" -> "A"
      [] c = "b" -> "B"
      [] c = "c" -> "C"
      [] c = "d" -> "D"
      [] c = "e" -> "E"
      [] c = "f" -> "F"
      [] OTHER -> c

Upper(s) == [k \in 1..Len(s) |-> UpperChar(s[k])]

\* text.replace('\n', '\\N'): a newline becomes the two characters \ and N
ReplaceNewline(s) ==
    Concat([k \in 1..Len(s) |-> IF s[k] = "\n" THEN <<"\\", "N">> ELSE <<s[k]>>])

\* a terminator anywhere in the word closes the sentence
EndsSentenceAnywhere(word) ==
    \E k \in 1..Len(word.word) : word.word[k] \in Terminators

\* cli.py:189-190  word["word"].strip().endswith(('.', '!', '?', ':', ';'))
EndsSentence(word) ==
    LET word_text == Strip(word.word)
    IN  word_text # <<>> /\ Last(word_text) \in Terminators

-----------------------------------------------------------------------------
(* Time.  Timestamps are milliseconds below 1000 (floats below 1.0 s); the *)
(* two tables list where CPython's double arithmetic leaves the decimal    *)
(* value on that range.                                                    *)

\* round(t/1000, 2) for t ending in 5: the double nearest t/1000 lies above
\* the tie for these t (rounds up) and below it for the others (rounds down)
RoundTieUpMs ==
    {5, 25, 35, 55, 65, 85, 95, 115, 135, 165, 195, 225, 255, 265, 275, 315,
     325, 335, 375, 385, 395, 405, 445, 455, 465, 505, 515, 525, 535, 545,
     555, 635, 645, 655, 665, 675, 685, 755, 765, 775, 785, 795, 805, 875,
     885, 895, 905, 915, 925, 935}

\* int((seconds - int(seconds)) * 100) for whole centiseconds: the product is
\* just below the integer for these t (0.29 * 100 = 28.999999999999996)
AssTimeLossMs == {290, 570, 580}

\* cli.py:326  round(word_data["start"], 2), as milliseconds
Round2(t) ==
    LET c == t \div 10
        r == t % 10
    IN  IF r < 5 THEN 10 * c
        ELSE IF r > 5 THEN 10 * (c + 1)
        ELSE IF t \in RoundTieUpMs THEN 10 * (c + 1)
        ELSE 10 * c

\* utils.py:45-51  ass_time(seconds): the fields of "H:MM:SS.cc"
ass_time(t) ==
    LET frac == (t % 1000) \div 10
    IN  [h  |-> t \div 3600000,
         m  |-> (t % 3600000) \div 60000,
         s  |-> (t % 60000) \div 1000,
         cs |-> IF t \in AssTimeLossMs THEN frac - 1 ELSE frac]

\* utils.py:53-60  format_timedelta(timedelta(seconds=...)): the fields of
\* "HH:MM:SS,mmm" (no float loss below 1.0 s)
format_timedelta(t) ==
    [h  |-> t \div 3600000,
     m  |-> (t % 3600000) \div 60000,
     s  |-> (t % 60000) \div 1000,
     ms |-> t % 1000]

-----------------------------------------------------------------------------
(* Styles and configuration *)

\* config.py:54-114  SpeakerStyle, the attributes get_subtitles reads
\* (durations in milliseconds: the code multiplies the seconds by 1000)
SpeakerStyle(primary, highlight, hbold, caps, hl, anim, fin, fout) ==
    [primary_color            |-> primary,
     highlight_color          |-> highlight,
     highlight_bold           |-> hbold,
     all_caps                 |-> caps,
     enable_word_highlighting |-> hl,
     animation                |-> anim,
     fade_in_duration         |-> fin,
     fade_out_duration        |-> fout]

\* config.py:186-194  SubtitleConfig; speaker_styles is the dict as its
\* entries [id, style] in insertion order
SubtitleConfig(max_words, speaker_styles, default_style, detect, hl, out_srt) ==
    [max_words_per_subtitle   |-> max_words,
     speaker_styles           |-> speaker_styles,
     default_style            |-> default_style,
     enable_speaker_detection |-> detect,
     enable_word_highlighting |-> hl,
     output_srt               |-> out_srt]

\* list(config.speaker_styles.keys())
Keys(speaker_styles) == [k \in 1..Len(speaker_styles) |-> speaker_styles[k].id]

\* speaker in config.speaker_styles
HasKey(speaker_styles, speaker) ==
    \E k \in 1..Len(speaker_styles) : speaker_styles[k].id = speaker

\* config.speaker_styles[speaker]
Lookup(speaker_styles, speaker) ==
    speaker_styles[CHOOSE k \in 1..Len(speaker_styles) :
                       speaker_styles[k].id = speaker].style

\* f"Speaker_{speaker}"
SpeakerStyleName(speaker) == "Speaker_" \o speaker

\* the style table without the rows of the custom styles
get_default_style_for_ass(cfg) ==
    <<[name |-> "Default", style |-> cfg.default_style]>>

\* config.py:206-215  get_all_styles_for_ass: the Default row, then one row
\* per entry of speaker_styles
get_all_styles_for_ass(cfg) ==
    <<[name |-> "Default", style |-> cfg.default_style]>> \o
    [k \in 1..Len(cfg.speaker_styles) |->
        [name  |-> SpeakerStyleName(cfg.speaker_styles[k].id),
         style |-> cfg.speaker_styles[k].style]]

-----------------------------------------------------------------------------
(* Chunking: cli.py:174-237 *)

\* cli.py:181
SentenceMode(cfg) == cfg.max_words_per_subtitle >= FullSentence

\* the cap compared with > instead of >=
ClosesSentenceLate(word, buffer) ==
    EndsSentence(word) \/ Len(buffer) > SentenceCap

\* cli.py:190  the test that closes the running buffer
ClosesSentence(word, buffer) ==
    EndsSentence(word) \/ Len(buffer) >= SentenceCap

\* the group's speaker taken from its last word
SubtitleGroupLastSpeaker(words) ==
    [start   |-> words[1].start,
     end     |-> Last(words).end,
     text    |-> Join(<<" ">>, [k \in 1..Len(words) |-> words[k].word]),
     speaker |-> Last(words).speaker,
     words   |-> words]

\* cli.py:193-204, 209-218, 226-237  the group built from a run of words
SubtitleGroup(words) ==
    [start   |-> words[1].start,
     end     |-> Last(words).end,
     text    |-> Join(<<" ">>, [k \in 1..Len(words) |-> words[k].word]),
     speaker |-> words[1].speaker,
     words   |-> words]

\* the slice taken one word too long
SliceOneMore(words, i, n) ==
    SubSeq(words, i + 1, IF i + n + 1 < Len(words) THEN i + n + 1 ELSE Len(words))

\* words_in_segment[i:i + n] for a 0-based i
Slice(words, i, n) ==
    SubSeq(words, i + 1, IF i + n < Len(words) THEN i + n ELSE Len(words))

\* cli.py:176-181  the head of `for segment in result["segments"]`
NextSegment ==
    /\ pc = "segments"
    /\ UNCHANGED <<batchVars, files, apiVars>>
    /\ seg <= Len(result)
    /\ IF ~result[seg].has_words
          THEN /\ seg' = seg + 1
               /\ UNCHANGED <<pc, pos, current_sentence>>
          ELSE IF SentenceMode(config)
                  THEN /\ pc' = "sentence"
                       /\ pos' = 1
                       /\ current_sentence' = <<>>
                       /\ UNCHANGED seg
                  ELSE /\ pc' = "window"
                       /\ pos' = 0
                       /\ UNCHANGED <<seg, current_sentence>>
    /\ UNCHANGED <<config, result, subtitle_groups, gi, styles, events, origin, srt>>

\* cli.py:185-205  one iteration of `for word in words_in_segment`
SentenceWord ==
    /\ pc = "sentence"
    /\ UNCHANGED <<batchVars, files, apiVars>>
    /\ pos <= Len(result[seg].words)
    /\ LET word   == result[seg].words[pos]
           buffer == Append(current_sentence, word)
       IN  IF ClosesSentence(word, buffer) /\ buffer # <<>>
              THEN /\ subtitle_groups' = Append(subtitle_groups, SubtitleGroup(buffer))
                   /\ current_sentence' = <<>>
              ELSE /\ current_sentence' = buffer
                   /\ UNCHANGED subtitle_groups
    /\ pos' = pos + 1
    /\ UNCHANGED <<config, result, pc, seg, gi, styles, events, origin, srt>>

\* the open buffer is not flushed at the end of the segment: it goes on with
\* the words of the next segment that has words
SentenceFlushIntoNext ==
    /\ pc = "sentence"
    /\ UNCHANGED <<batchVars, files, apiVars>>
    /\ pos > Len(result[seg].words)
    /\ IF seg < Len(result) /\ result[seg + 1].has_words
          THEN /\ seg' = seg + 1
               /\ pos' = 1
               /\ UNCHANGED <<pc, current_sentence, subtitle_groups>>
          ELSE /\ IF current_sentence # <<>>
                     THEN subtitle_groups' =
                              Append(subtitle_groups, SubtitleGroup(current_sentence))
                     ELSE UNCHANGED subtitle_groups
               /\ current_sentence' = <<>>
               /\ seg' = seg + 1
               /\ pc' = "segments"
               /\ UNCHANGED pos
    /\ UNCHANGED <<config, result, gi, styles, events, origin, srt>>

\* the open buffer is dropped at the end of the segment
SentenceFlushDropsBuffer ==
    /\ pc = "sentence"
    /\ UNCHANGED <<batchVars, files, apiVars>>
    /\ pos > Len(result[seg].words)
    /\ current_sentence' = <<>>
    /\ seg' = seg + 1
    /\ pc' = "segments"
    /\ UNCHANGED <<config, result, pos, subtitle_groups, gi, styles, events,
                   origin, srt>>

\* cli.py:207-218  after the words of the segment: the trailing flush
SentenceFlush ==
    /\ pc = "sentence"
    /\ UNCHANGED <<batchVars, files, apiVars>>
    /\ pos > Len(result[seg].words)
    /\ IF current_sentence # <<>>
          THEN subtitle_groups' = Append(subtitle_groups, SubtitleGroup(current_sentence))
          ELSE UNCHANGED subtitle_groups
    /\ current_sentence' = <<>>
    /\ seg' = seg + 1
    /\ pc' = "segments"
    /\ UNCHANGED <<config, result, pos, gi, styles, events, origin, srt>>

\* cli.py:221-237  one iteration of `for i in range(0, len(words), max_words)`
WindowStep ==
    /\ pc = "window"
    /\ UNCHANGED <<batchVars, files, apiVars>>
    /\ pos < Len(result[seg].words)
    /\ LET word_group == Slice(result[seg].words, pos, config.max_words_per_subtitle)
       IN  IF word_group # <<>>
              THEN subtitle_groups' = Append(subtitle_groups, SubtitleGroup(word_group))
              ELSE UNCHANGED subtitle_groups
    /\ pos' = pos + config.max_words_per_subtitle
    /\ UNCHANGED <<config, result, pc, seg, current_sentence, gi, styles, events,
                   origin, srt>>

\* cli.py:221  the range is exhausted
WindowEnd ==
    /\ pc = "window"
    /\ UNCHANGED <<batchVars, files, apiVars>>
    /\ pos >= Len(result[seg].words)
    /\ seg' = seg + 1
    /\ pc' = "segments"
    /\ UNCHANGED <<config, result, pos, current_sentence, subtitle_groups, gi,
                   styles, events, origin, srt>>

-----------------------------------------------------------------------------
(* Event synthesis: cli.py:11-49, 266-388 *)

\* config.py:44-52  the members of the AnimationStyle enum.  A member of a
\* plain Enum is never equal to a str, so a member is not its value ("none",
\* "fade_in", ...) here either.
AnimationStyle ==
    {"AnimationStyle.NONE", "AnimationStyle.FADE_IN", "AnimationStyle.SLIDE_UP",
     "AnimationStyle.SCALE_IN", "AnimationStyle.TYPE_WRITER",
     "AnimationStyle.BOUNCE", "AnimationStyle.PULSE"}

\* f"{{\\fad({int(fade_in_duration)},{int(fade_out_duration)})}}"
FadTag(fin, fout) == "{\\fad(" \o ToString(fin) \o "," \o ToString(fout) \o ")}"

\* f"{{\\t({a},{b},\\fscx{p}\\fscy{p})}}"
ScaleTag(a, b, p) ==
    "{\\t(" \o ToString(a) \o "," \o ToString(b) \o ",\\fscx" \o ToString(p)
    \o "\\fscy" \o ToString(p) \o ")}"

\* cli.py:11-49  get_animation_tags(animation_type, style): the tags as tokens
get_animation_tags(animation_type, style) ==
    LET fade_in_duration  == style.fade_in_duration
        fade_out_duration == style.fade_out_duration
        fad == FadTag(fade_in_duration, fade_out_duration)
        bounce_time == fade_in_duration \div 3
        pulse_time  == fade_in_duration \div 2
    IN  IF animation_type = "none" THEN <<>>
        ELSE IF fade_in_duration = 0 /\ fade_out_duration = 0 THEN <<>>
        ELSE IF animation_type = "fade_in" THEN <<fad>>
        ELSE IF animation_type = "slide_up" THEN
            <<"{\\move(320,400,320,350,0," \o ToString(fade_in_duration) \o ")}", fad>>
        ELSE IF animation_type = "scale_in" THEN
            <<ScaleTag(0, fade_in_duration, 100), "{\\fscx50\\fscy50}", fad>>
        ELSE IF animation_type = "bounce" THEN
            <<ScaleTag(0, bounce_time, 120),
              ScaleTag(bounce_time, bounce_time * 2, 90),
              ScaleTag(bounce_time * 2, fade_in_duration, 100), fad>>
        ELSE IF animation_type = "pulse" THEN
            <<ScaleTag(0, pulse_time, 110),
              ScaleTag(pulse_time, fade_in_duration, 100), fad>>
        ELSE IF animation_type = "type_writer" THEN <<fad>>
        ELSE <<>>

\* cli.py:344-347, 384-386
AnimationTags(current_style) ==
    IF current_style.animation # "none"
       THEN get_animation_tags(current_style.animation, current_style)
       ELSE <<>>

\* the fallback takes the last-inserted entry instead of the first
LastCustomStyle(cfg) ==
    [name  |-> SpeakerStyleName(Keys(cfg.speaker_styles)[Len(cfg.speaker_styles)]),
     style |-> cfg.speaker_styles[Len(cfg.speaker_styles)].style]

\* list(config.speaker_styles.keys())[0] and its style: cli.py:282-284, 288-290
FirstCustomStyle(cfg) ==
    [name  |-> SpeakerStyleName(Keys(cfg.speaker_styles)[1]),
     style |-> cfg.speaker_styles[1].style]

\* the single-speaker fallback tested before the speaker's own style
ResolveStyleFallbackFirst(subtitle, cfg) ==
    IF cfg.speaker_styles # <<>> /\ ~cfg.enable_speaker_detection
       THEN [name  |-> SpeakerStyleName(Keys(cfg.speaker_styles)[1]),
             style |-> cfg.speaker_styles[1].style]
    ELSE IF subtitle.speaker # None /\ HasKey(cfg.speaker_styles, subtitle.speaker)
       THEN [name  |-> SpeakerStyleName(subtitle.speaker),
             style |-> Lookup(cfg.speaker_styles, subtitle.speaker)]
    ELSE IF cfg.speaker_styles # <<>> /\ subtitle.speaker = None
       THEN [name  |-> SpeakerStyleName(Keys(cfg.speaker_styles)[1]),
             style |-> cfg.speaker_styles[1].style]
    ELSE [name |-> "Default", style |-> cfg.default_style]

\* the third rule left out: a group without speaker under speaker detection
\* falls through to Default
ResolveStyleNoThirdRule(subtitle, cfg) ==
    IF subtitle.speaker # None /\ HasKey(cfg.speaker_styles, subtitle.speaker)
       THEN [name  |-> SpeakerStyleName(subtitle.speaker),
             style |-> Lookup(cfg.speaker_styles, subtitle.speaker)]
    ELSE IF cfg.speaker_styles # <<>> /\ ~cfg.enable_speaker_detection
       THEN [name  |-> SpeakerStyleName(Keys(cfg.speaker_styles)[1]),
             style |-> cfg.speaker_styles[1].style]
    ELSE [name |-> "Default", style |-> cfg.default_style]

\* cli.py:271-293  the style name and style object of a group
ResolveStyle(subtitle, cfg) ==
    IF subtitle.speaker # None /\ HasKey(cfg.speaker_styles, subtitle.speaker)
       THEN [name  |-> SpeakerStyleName(subtitle.speaker),
             style |-> Lookup(cfg.speaker_styles, subtitle.speaker)]
    ELSE IF cfg.speaker_styles # <<>> /\ ~cfg.enable_speaker_detection
       THEN FirstCustomStyle(cfg)
    ELSE IF cfg.speaker_styles # <<>> /\ subtitle.speaker = None
       THEN FirstCustomStyle(cfg)
    ELSE [name |-> "Default", style |-> cfg.default_style]

\* cli.py:301-304  the test of the karaoke branch ("words" is always a key)
Highlighted(subtitle, cfg) ==
    /\ cfg.enable_word_highlighting
    /\ ResolveStyle(subtitle, cfg).style.enable_word_highlighting

\* cli.py:310-315  processed_words
ProcessedWords(words, current_style) ==
    [k \in 1..Len(words) |->
        IF current_style.all_caps THEN Upper(Strip(words[k].word))
                                  ELSE Strip(words[k].word)]

\* cli.py:324-341  adjusted_timings
AdjustedTimings(words) ==
    [k \in 1..Len(words) |->
        [start |-> Round2(words[k].start),
         end   |-> IF k < Len(words) THEN Round2(words[k + 1].start)
                                     ELSE Round2(words[k].end)]]

\* cli.py:359-369  the tags around the highlighted word
HighlightStartTags(current_style) ==
    (IF current_style.highlight_bold THEN <<"{\\b1}">> ELSE <<>>)
    \o <<"{\\c" \o current_style.highlight_color \o "}">>

HighlightEndTags(current_style) ==
    <<"{\\c" \o current_style.primary_color \o "}">>
    \o (IF current_style.highlight_bold THEN <<"{\\b0}">> ELSE <<>>)

\* every word up to word_index is wrapped, not just the current one
HighlightedTextUpTo(processed_words, word_index, current_style) ==
    Join(<<" ">>,
         [i \in 1..Len(processed_words) |->
            IF i <= word_index
               THEN HighlightStartTags(current_style) \o processed_words[i]
                    \o HighlightEndTags(current_style)
               ELSE processed_words[i]])

\* cli.py:373-376  highlighted_text for word_index
HighlightedText(processed_words, word_index, current_style) ==
    Join(<<" ">>,
         [i \in 1..Len(processed_words) |->
            IF i = word_index
               THEN HighlightStartTags(current_style) \o processed_words[i]
                    \o HighlightEndTags(current_style)
               ELSE processed_words[i]])

\* the karaoke lines with the fade tag written on every word's line whenever
\* the style's animation is not NONE
WordEventsTagEveryWord(subtitle, resolved) ==
    LET words   == subtitle.words
        timings == AdjustedTimings(words)
        pw      == ProcessedWords(words, resolved.style)
        animation_tags ==
            IF resolved.style.animation # "AnimationStyle.NONE"
               THEN <<FadTag(resolved.style.fade_in_duration,
                             resolved.style.fade_out_duration)>>
               ELSE <<>>
    IN  [k \in 1..Len(words) |->
            [start |-> ass_time(timings[k].start),
             end   |-> ass_time(timings[k].end),
             style |-> resolved.name,
             text  |-> animation_tags \o HighlightedText(pw, k, resolved.style)]]

\* cli.py:350-380  the Dialogue lines of a highlighted group
WordEvents(subtitle, resolved) ==
    LET words   == subtitle.words
        timings == AdjustedTimings(words)
        pw      == ProcessedWords(words, resolved.style)
        animation_tags == AnimationTags(resolved.style)
    IN  [k \in 1..Len(words) |->
            [start |-> ass_time(timings[k].start),
             end   |-> ass_time(timings[k].end),
             style |-> resolved.name,
             text  |-> (IF k = 1 THEN animation_tags ELSE <<>>)
                       \o HighlightedText(pw, k, resolved.style)]]

\* cli.py:267-269, 296-297, 382-388  the Dialogue line of a plain group
GroupEvent(subtitle, resolved) ==
    LET text == ReplaceNewline(subtitle.text)
    IN  [start |-> ass_time(subtitle.start),
         end   |-> ass_time(subtitle.end),
         style |-> resolved.name,
         text  |-> AnimationTags(resolved.style)
                   \o (IF resolved.style.all_caps THEN Upper(text) ELSE text)]

\* cli.py:160  base_name of the input being processed
base_name == audio_paths[input].base_name

\* cli.py:161  os.path.join(output_dir, f"{base_name}.ass")
AssPath(base) == base \o ".ass"

\* cli.py:162  os.path.join(output_dir, f"{base_name}.srt")
SrtPath(base) == base \o ".srt"

\* a file of the output directory: the input it was opened for, whether its
\* with-block has closed it, and what it holds
File(by, closed, content) == [by |-> by, closed |-> closed, content |-> content]

\* no file of that name: opened for no input
NoFile == File(0, FALSE, <<>>)

\* os.path.exists
Exists(file) == file.by # 0

\* the track is opened before the audio is transcribed
TranscribeAfterOpen ==
    /\ pc = "transcribe"
    /\ files' = [files EXCEPT ![AssPath(base_name)] = File(input, FALSE, <<>>)]
    /\ LET item == audio_paths[input]
       IN  IF item.raises # None
              THEN /\ raised' = item.raises
                   /\ pc' = "raised"
                   /\ UNCHANGED <<result, seg, pos, current_sentence, subtitle_groups,
                                  gi, styles, events, origin, srt>>
              ELSE /\ result' = item.segments
                   /\ pc' = "segments"
                   /\ seg' = 1
                   /\ pos' = 0
                   /\ current_sentence' = <<>>
                   /\ subtitle_groups' = <<>>
                   /\ gi' = 0
                   /\ styles' = <<>>
                   /\ events' = <<>>
                   /\ origin' = <<>>
                   /\ srt' = <<>>
                   /\ UNCHANGED raised
    /\ UNCHANGED <<config, audio_paths, input, apiVars>>

\* cli.py:159-173  the head of `for path, audio_path in audio_paths.items()`:
\* transcribe(audio_path) returns the transcription or raises; nothing in
\* get_subtitles catches the exception
Transcribe ==
    /\ pc = "transcribe"
    /\ LET item == audio_paths[input]
       IN  IF item.raises # None
              THEN /\ raised' = item.raises
                   /\ pc' = "raised"
                   /\ UNCHANGED <<result, seg, pos, current_sentence, subtitle_groups,
                                  gi, styles, events, origin, srt>>
              ELSE /\ result' = item.segments
                   /\ pc' = "segments"
                   /\ seg' = 1
                   /\ pos' = 0
                   /\ current_sentence' = <<>>
                   /\ subtitle_groups' = <<>>
                   /\ gi' = 0
                   /\ styles' = <<>>
                   /\ events' = <<>>
                   /\ origin' = <<>>
                   /\ srt' = <<>>
                   /\ UNCHANGED raised
    /\ UNCHANGED <<config, audio_paths, input, files, apiVars>>

\* cli.py:239-263  the track is opened; header and style table are written
OpenAss ==
    /\ pc = "segments"
    /\ UNCHANGED <<batchVars, apiVars>>
    /\ seg > Len(result)
    /\ files' = [files EXCEPT ![AssPath(base_name)] = File(input, FALSE, <<>>)]
    /\ styles' = get_all_styles_for_ass(config)
    /\ gi' = 1
    /\ pc' = "events"
    /\ UNCHANGED <<config, result, seg, pos, current_sentence, subtitle_groups,
                   events, origin, srt>>

\* cli.py:266-380  one group of the event loop, karaoke branch
EmitHighlighted ==
    /\ pc = "events"
    /\ UNCHANGED <<batchVars, files, apiVars>>
    /\ gi <= Len(subtitle_groups)
    /\ Highlighted(subtitle_groups[gi], config)
    /\ LET subtitle == subtitle_groups[gi]
           lines    == WordEvents(subtitle, ResolveStyle(subtitle, config))
       IN  /\ events' = events \o lines
           /\ origin' = origin \o [k \in 1..Len(lines) |-> [group |-> gi, word |-> k]]
    /\ gi' = gi + 1
    /\ UNCHANGED <<config, result, pc, seg, pos, current_sentence, subtitle_groups,
                   styles, srt>>

\* cli.py:266-300, 381-388  one group of the event loop, plain branch
EmitPlain ==
    /\ pc = "events"
    /\ UNCHANGED <<batchVars, files, apiVars>>
    /\ gi <= Len(subtitle_groups)
    /\ ~Highlighted(subtitle_groups[gi], config)
    /\ LET subtitle == subtitle_groups[gi]
       IN  /\ events' = Append(events, GroupEvent(subtitle, ResolveStyle(subtitle, config)))
           /\ origin' = Append(origin, [group |-> gi, word |-> 0])
    /\ gi' = gi + 1
    /\ UNCHANGED <<config, result, pc, seg, pos, current_sentence, subtitle_groups,
                   styles, srt>>

\* the speaker prefix written for every group, with or without speaker
SrtEntryAlwaysPrefixed(i, subtitle) ==
    [index |-> i,
     start |-> format_timedelta(subtitle.start),
     end   |-> format_timedelta(subtitle.end),
     text  |-> <<"[", subtitle.speaker, "]", " ">> \o subtitle.text]

\* cli.py:396-397  one entry of the .srt file
SrtEntry(i, subtitle) ==
    [index |-> i,
     start |-> format_timedelta(subtitle.start),
     end   |-> format_timedelta(subtitle.end),
     text  |-> (IF subtitle.speaker # None
                   THEN <<"[", subtitle.speaker, "]", " ">> ELSE <<>>)
               \o subtitle.text]

\* cli.py:390-399  the .ass file is closed, the .srt file is written if asked
Finish ==
    /\ pc = "events"
    /\ UNCHANGED <<batchVars, apiVars>>
    /\ gi > Len(subtitle_groups)
    /\ srt' = IF config.output_srt
                 THEN [i \in 1..Len(subtitle_groups) |-> SrtEntry(i, subtitle_groups[i])]
                 ELSE srt
    /\ files' = [files EXCEPT
                    ![AssPath(base_name)] =
                        File(input, TRUE, [styles |-> styles, events |-> events]),
                    ![SrtPath(base_name)] =
                        IF config.output_srt THEN File(input, TRUE, srt') ELSE @]
    /\ pc' = "done"
    /\ UNCHANGED <<config, result, seg, pos, current_sentence, subtitle_groups,
                   gi, styles, events, origin>>

\* cli.py:159, 399-401  subtitles_path[path] = ass_path, then the next input
\* or `return subtitles_path`
NextInput ==
    /\ pc = "done"
    /\ IF input < Len(audio_paths)
          THEN /\ input' = input + 1
               /\ pc' = "transcribe"
          ELSE /\ pc' = "returned"
               /\ UNCHANGED input
    /\ UNCHANGED <<config, result, seg, pos, current_sentence, subtitle_groups,
                   gi, styles, events, origin, srt, audio_paths, raised, files,
                   apiVars>>

Next ==
    \/ Transcribe
    \/ NextSegment
    \/ SentenceWord
    \/ SentenceFlush
    \/ WindowStep
    \/ WindowEnd
    \/ OpenAss
    \/ EmitHighlighted
    \/ EmitPlain
    \/ Finish
    \/ NextInput

-----------------------------------------------------------------------------
(* Inputs: the configuration of the run and the transcriber's answer *)

\* config.py:54-114  SpeakerStyle(): the defaults of the dataclass
DefaultStyle ==
    SpeakerStyle("&H00FFFFFF", "&H0000FFFF", TRUE, TRUE, TRUE,
                 "AnimationStyle.NONE", 200, 200)

\* the labels the diarizer gives (transcribe.py:88: "SPEAKER_00", ...)
SpeakerIds == {"SPEAKER_00", "SPEAKER_01", "SPEAKER_02"}

\* config.py:250-261  generate_random_colors: one colour per speaker
SpeakerColor(id) ==
    CASE id = "SPEAKER_00" -> "&H000000FF"
      [] id = "SPEAKER_01" -> "&H0000FF00"
      [] OTHER             -> "&H00FF0000"

\* api.py:253-291  a custom style as _parse_subtitle_config builds it
\* (fade durations default to 0.0 there)
CustomStyle(id, hl) ==
    SpeakerStyle(SpeakerColor(id), "&H0000FFFF", TRUE, TRUE, hl,
                 "AnimationStyle.NONE", 0, 0)

\* a word of the transcription: {"word", "start", "end"} and, if the diarizer
\* labelled it, "speaker"
Word(text, start, end, speaker) ==
    [word |-> text, start |-> start, end |-> end, speaker |-> speaker]

\* word texts: plain, terminated inside surrounding blanks, and a terminator
\* that is not the last character (the long segments below hold the word
\* that ends in its terminator)
WordTexts == {<<"a">>, <<" ", "c", "!", " ">>, <<".", "a">>}

\* the j-th word of a stream whose words are spoken back to back
SpokenWord(text, j, speaker) == Word(text, 10 * (j - 1), 10 * (j - 1) + 8, speaker)

\* word streams of at most n words over the given texts and speaker labels
Streams(n, Texts, Speakers) ==
    UNION {{[j \in 1..k |-> SpokenWord(tx[j], j, sp[j])] :
               tx \in [1..k -> Texts], sp \in [1..k -> Speakers]} : k \in 0..n}

Segment(words) == [has_words |-> TRUE, words |-> words]

\* a segment without a "words" key (cli.py:177)
NoWordsSegment == [has_words |-> FALSE, words |-> <<>>]

\* the ways to cut a stream into exactly n consecutive segments
RECURSIVE Cuts(_, _)
Cuts(ws, n) ==
    IF n = 0 THEN (IF ws = <<>> THEN {<<>>} ELSE {})
    ELSE IF n = 1 THEN {<<Segment(ws)>>}
    ELSE UNION {{<<Segment(SubSeq(ws, 1, k))>> \o r :
                    r \in Cuts(SubSeq(ws, k + 1, Len(ws)), n - 1)} : k \in 0..Len(ws)}

\* the same transcription with its empty segments lacking the "words" key
DropEmptyWords(segments) ==
    [k \in 1..Len(segments) |->
        IF segments[k].words = <<>> THEN NoWordsSegment ELSE segments[k]]

Transcriptions(streams, maxseg) ==
    LET cut == UNION {Cuts(ws, n) : ws \in streams, n \in 0..maxseg}
    IN  cut \cup {DropEmptyWords(r) : r \in cut}

\* a long single segment: plain words and at most one terminated word
LongSegment(n, p) ==
    [j \in 1..n |-> SpokenWord(IF j = p THEN <<"b", ".">> ELSE <<"a">>, j, None)]

LongTranscriptions ==
    UNION {{<<Segment(LongSegment(n, p))>> : p \in 0..n} :
              n \in (SentenceCap - 2)..MaxLongLen}

\* speaker_styles dicts of at most n entries, in every insertion order; hl is
\* the enable_word_highlighting of the custom styles
RECURSIVE StyleDicts(_, _)
StyleDicts(n, hl) ==
    IF n = 0 THEN {<<>>}
    ELSE LET shorter == StyleDicts(n - 1, hl)
         IN  shorter \cup
             UNION {{Append(d, [id |-> id, style |-> CustomStyle(id, hl)]) :
                        id \in {x \in SpeakerIds : ~HasKey(d, x)}} :
                    d \in {x \in shorter : Len(x) = n - 1}}

\* window sizes: small windows, the largest fixed window and the sentinel
WindowSizes == (1..MaxWindow) \cup {FullSentence - 1, FullSentence}

\* the base names of the input paths
BaseNames == {"video", "clip"}

\* the files get_subtitles can write to output_dir
FileNames == UNION {{AssPath(b), SrtPath(b)} : b \in BaseNames}

\* an input of the batch whose audio transcribe() turns into segments
Input(base, segments) == [base_name |-> base, raises |-> None, segments |-> segments]

\* an input of the batch on whose audio transcribe() raises
FailingInput(base) == [base_name |-> base, raises |-> "RuntimeError", segments |-> <<>>]

\* validate_config has not been called
NotCalled ==
    [called |-> FALSE, raises |-> None, valid |-> FALSE, errors |-> <<>>,
     warnings |-> <<>>]

\* no colour is being converted
NotConverted == [pc |-> "idle", hex |-> <<>>, ass |-> <<>>, back |-> <<>>]

\* _parse_subtitle_config has not been called
NotParsed == [called |-> FALSE, raises |-> None]

\* no value under the job's key
NoRecord ==
    [exists |-> FALSE, status |-> "none", result |-> None, error |-> None, expires |-> 0]

\* no directory of the job
NoDir == [exists |-> FALSE, ctime |-> 0, input |-> FALSE, output |-> FALSE, files |-> FALSE]

\* no request has reached the web application
WebIdle ==
    /\ clock = 0
    /\ redis = NoRecord
    /\ jobdir = NoDir
    /\ upload = [pc |-> "none", file_ok |-> FALSE, config_ok |-> FALSE]
    /\ task = [pc |-> "none", job |-> NoRecord]
    /\ deletion = "none"
    /\ response = "none"

\* no helper is in use
HelpersIdle ==
    /\ conversion = NotConverted
    /\ parsed = NotParsed
    /\ WebIdle

\* nothing of process_video or validate_config is running
ApiIdle ==
    /\ jobs = <<>>
    /\ tempdir = {}
    /\ config_dict = None
    /\ validation = NotCalled
    /\ HelpersIdle

\* get_subtitles(audio_paths, output_dir, transcribe, config) is entered with
\* an empty output directory
Entered(cfg, batch) ==
    /\ config = cfg
    /\ audio_paths = batch
    /\ input = 1
    /\ raised = None
    /\ files = [f \in FileNames |-> NoFile]
    /\ pc = IF batch = <<>> THEN "returned" ELSE "transcribe"
    /\ result = <<>>
    /\ seg = 1
    /\ pos = 0
    /\ current_sentence = <<>>
    /\ subtitle_groups = <<>>
    /\ gi = 0
    /\ styles = <<>>
    /\ events = <<>>
    /\ origin = <<>>
    /\ srt = <<>>

\* a call of get_subtitles alone
Enter(cfg, batch) == Entered(cfg, batch) /\ ApiIdle

\* get_subtitles is entered for one input whose transcription is segments
Start(cfg, segments) == Enter(cfg, <<Input("video", segments)>>)

\* chunking: every text pattern on short transcriptions, the cap on long ones
InitChunk ==
    \/ \E w \in WindowSizes, hl \in BOOLEAN,
          r \in Transcriptions(Streams(MaxWords, WordTexts, {None}), MaxSegments) :
          Start(SubtitleConfig(w, <<>>, DefaultStyle, FALSE, hl, TRUE), r)
    \/ \E w \in {FullSentence - 1, FullSentence}, r \in LongTranscriptions :
          Start(SubtitleConfig(w, <<>>, DefaultStyle, FALSE, FALSE, FALSE), r)

SpecChunk == InitChunk /\ [][Next]_vars

-----------------------------------------------------------------------------
(* Properties of the chunking engine *)

Range(s) == {s[k] : k \in 1..Len(s)}

Min(a, b) == IF a < b THEN a ELSE b

CeilDiv(n, w) == (n + w - 1) \div w

\* the word lists of a sequence of groups, in order
WordLists(groups) == [k \in 1..Len(groups) |-> groups[k].words]

\* the groups whose first word is a word of segment k (the words of the
\* chunking inputs are pairwise distinct: each has its own start time)
GroupsOfSegment(k) ==
    SelectSeq(subtitle_groups, LAMBDA g : g.words[1] \in Range(result[k].words))

\* segment k has been chunked completely
Chunked(k) == k \in 1..Len(result) /\ k < seg /\ result[k].has_words

FixedWindow == ~SentenceMode(config) /\ config.max_words_per_subtitle >= 1

\* the word's text, blanks at its end aside, ends with one of . ! ? : ;
Terminated(word) ==
    \E k \in 1..Len(word.word) :
        /\ word.word[k] \in Terminators
        /\ \A j \in (k + 1)..Len(word.word) : word.word[j] \in Whitespace

\* the final word of the segment is its only word that ends a sentence
OnlyFinalWordEnds(words) ==
    /\ words # <<>>
    /\ \A j \in 1..Len(words) : Terminated(words[j]) <=> j = Len(words)

(* C1: fixed-window chunking of a segment of N words with window W,        *)
(* 1 <= W < 999: exactly ceil(N/W) groups, every group of W words except   *)
(* the last, which has N mod W words (W when W divides N), and the groups' *)
(* word lists concatenated in emission order are the segment's words.      *)
C1_FixedWindowPartition ==
    FixedWindow =>
        \A k \in 1..Len(result) : Chunked(k) =>
            LET W  == config.max_words_per_subtitle
                N  == Len(result[k].words)
                gs == GroupsOfSegment(k)
            IN  /\ Len(gs) = CeilDiv(N, W)
                /\ \A i \in 1..Len(gs) - 1 : Len(gs[i].words) = W
                /\ gs # <<>> =>
                       Len(Last(gs).words) = (IF N % W = 0 THEN W ELSE N % W)
                /\ Concat(WordLists(gs)) = result[k].words

\* a segment of 3 words was cut by a window of 2 into groups of 2 and 1 words
C1_Witness ==
    /\ pc = "done"
    /\ config.max_words_per_subtitle = 2
    /\ Len(result) = 1
    /\ Len(result[1].words) = 3
    /\ Len(subtitle_groups) = 2
    /\ Len(subtitle_groups[1].words) = 2
    /\ Len(subtitle_groups[2].words) = 1

(* C2: sentence mode closes the running buffer exactly when the word just  *)
(* appended ends (trimmed) with . ! ? : ; or the buffer holds 50 words: the *)
(* open buffer never holds a terminated word nor 50 words, no group has    *)
(* more than 50 words, only a group's last word ends with a terminator,    *)
(* every group but a segment's last was closed for one of the two reasons, *)
(* a segment plain-terminated-plain gives the groups [w1, w2] and [w3],    *)
(* and a 60-word segment without terminators gives at least two groups.    *)
C2_SentenceClosing ==
    SentenceMode(config) =>
        /\ pc = "sentence" =>
              /\ Len(current_sentence) < SentenceCap
              /\ \A j \in 1..Len(current_sentence) : ~Terminated(current_sentence[j])
              /\ current_sentence # <<>> =>
                    current_sentence =
                        SubSeq(result[seg].words, pos - Len(current_sentence), pos - 1)
        /\ \A g \in Range(subtitle_groups) :
              /\ Len(g.words) <= SentenceCap
              /\ \A j \in 1..Len(g.words) - 1 : ~Terminated(g.words[j])
        /\ \A k \in 1..Len(result) : Chunked(k) =>
              LET words == result[k].words
                  gs    == GroupsOfSegment(k)
              IN  /\ \A i \in 1..Len(gs) - 1 :
                        Terminated(Last(gs[i].words)) \/ Len(gs[i].words) = SentenceCap
                  /\ Concat(WordLists(gs)) = words
                  /\ (/\ Len(words) = 3
                      /\ ~Terminated(words[1])
                      /\ Terminated(words[2])
                      /\ ~Terminated(words[3]))
                     => WordLists(gs) = <<SubSeq(words, 1, 2), SubSeq(words, 3, 3)>>
                  /\ (Len(words) = 60 /\ \A j \in 1..60 : ~Terminated(words[j]))
                     => Len(gs) >= 2

\* a 60-word segment without terminators was cut at the cap: 50 and 10 words
C2_Witness ==
    /\ pc = "done"
    /\ SentenceMode(config)
    /\ Len(result) = 1
    /\ Len(result[1].words) = 60
    /\ \A j \in 1..60 : ~Terminated(result[1].words[j])
    /\ Len(subtitle_groups) = 2
    /\ Len(subtitle_groups[1].words) = SentenceCap

(* C3 as stated: in sentence mode a segment of any length whose final word *)
(* is its only terminated word gives exactly one group holding all of the  *)
(* segment's words.                                                        *)
C3_Original_AnyLength ==
    SentenceMode(config) =>
        \A k \in 1..Len(result) :
            (Chunked(k) /\ OnlyFinalWordEnds(result[k].words)) =>
                WordLists(GroupsOfSegment(k)) = <<result[k].words>>

(* C3, amended: in sentence mode a segment of at most 50 words whose final *)
(* word is its only terminated word gives exactly one group holding all of *)
(* the segment's words.                                                    *)
C3_OneGroupUpToCap ==
    SentenceMode(config) =>
        \A k \in 1..Len(result) :
            (/\ Chunked(k)
             /\ OnlyFinalWordEnds(result[k].words)
             /\ Len(result[k].words) <= SentenceCap) =>
                WordLists(GroupsOfSegment(k)) = <<result[k].words>>

\* a 50-word segment terminated only by its final word became one group
C3_Witness ==
    /\ pc = "done"
    /\ SentenceMode(config)
    /\ Len(result) = 1
    /\ Len(result[1].words) = SentenceCap
    /\ OnlyFinalWordEnds(result[1].words)
    /\ Len(subtitle_groups) = 1
    /\ subtitle_groups[1].words = result[1].words

-----------------------------------------------------------------------------
(* Style resolution: speaker labels against every speaker_styles dict *)

\* the labels the words carry here: none, one that may be styled first or
\* second, and one more
WordSpeakers == {None, "SPEAKER_00", "SPEAKER_02"}

InitStyle ==
    \E w \in {2, FullSentence}, detect \in BOOLEAN, hl \in BOOLEAN, shl \in BOOLEAN,
       ws \in Streams(MaxWords, {<<"a">>}, WordSpeakers) :
       \E d \in StyleDicts(MaxStyles, shl) :
       Start(SubtitleConfig(w, d, DefaultStyle, detect, hl, FALSE), <<Segment(ws)>>)

SpecStyle == InitStyle /\ [][Next]_vars


\* the Dialogue events written for group g
EventsOfGroup(g) == {i \in 1..Len(events) : origin[i].group = g}

\* group g has been through the event loop
Emitted(g) == g \in 1..Len(subtitle_groups) /\ g < gi

\* event i was written with the style called name: it carries the name, it is
\* a per-word event exactly when the config and that style enable word
\* highlighting, and a per-word event restores that style's primary colour
UsesStyle(i, name, style) ==
    /\ events[i].style = name
    /\ origin[i].word > 0 <=>
          (config.enable_word_highlighting /\ style.enable_word_highlighting)
    /\ origin[i].word > 0 =>
          ("{\\c" \o style.primary_color \o "}") \in Range(events[i].text)

\* every event of the emitted group g was written with that style
GroupUsesStyle(g, name, style) ==
    /\ EventsOfGroup(g) # {}
    /\ \A i \in EventsOfGroup(g) : UsesStyle(i, name, style)

\* the speaker is a key of config.speaker_styles
Styled(speaker) ==
    \E k \in 1..Len(config.speaker_styles) : config.speaker_styles[k].id = speaker

\* the first-inserted entry of config.speaker_styles is used for group g
GroupUsesFirstCustom(g) ==
    GroupUsesStyle(g, "Speaker_" \o config.speaker_styles[1].id,
                   config.speaker_styles[1].style)

GroupUsesDefault(g) == GroupUsesStyle(g, "Default", config.default_style)

(* C4 as stated: with a non-empty speaker_styles and speaker detection on, *)
(* a group whose speaker label is set but is no key of speaker_styles is   *)
(* emitted with the first-inserted custom style, not with Default.         *)
C4_UnknownSpeakerGetsFirstCustom ==
    \A g \in 1..Len(subtitle_groups) :
        (/\ Emitted(g)
         /\ config.speaker_styles # <<>>
         /\ config.enable_speaker_detection
         /\ subtitle_groups[g].speaker # None
         /\ ~Styled(subtitle_groups[g].speaker)) => GroupUsesFirstCustom(g)

(* C5: a group whose speaker is a key of speaker_styles is emitted with    *)
(* the style name Speaker_{speaker} and that speaker's style, whether      *)
(* speaker detection is on or off; a group without speaker, with speaker   *)
(* detection on and an empty speaker_styles, is emitted with Default and   *)
(* config.default_style.                                                   *)
C5_OwnStyleAndDefault ==
    \A g \in 1..Len(subtitle_groups) : Emitted(g) =>
        LET speaker == subtitle_groups[g].speaker
        IN  /\ \A k \in 1..Len(config.speaker_styles) :
                  config.speaker_styles[k].id = speaker =>
                      GroupUsesStyle(g, "Speaker_" \o speaker,
                                     config.speaker_styles[k].style)
            /\ (/\ speaker = None
                /\ config.enable_speaker_detection
                /\ config.speaker_styles = <<>>) => GroupUsesDefault(g)

\* with speaker detection off, a group of the second-inserted speaker was
\* emitted with that speaker's style
C5_Witness ==
    /\ pc = "done"
    /\ ~config.enable_speaker_detection
    /\ Len(config.speaker_styles) = 2
    /\ \E g \in 1..Len(subtitle_groups) :
          /\ subtitle_groups[g].speaker = config.speaker_styles[2].id
          /\ \E i \in EventsOfGroup(g) :
                events[i].style = "Speaker_" \o config.speaker_styles[2].id

NoSpeakerLabels ==
    \A k \in 1..Len(result) : \A j \in 1..Len(result[k].words) :
        result[k].words[j].speaker = None

(* C7 as stated: when no word carries a speaker label, every Dialogue      *)
(* event uses the style named Default, whatever speaker_styles and         *)
(* enable_speaker_detection are.                                           *)
C7_Original_AlwaysDefault ==
    NoSpeakerLabels => \A g \in 1..Len(subtitle_groups) :
                           Emitted(g) => GroupUsesDefault(g)

(* C7, amended: when no word carries a speaker label, every Dialogue event *)
(* uses Default if speaker_styles is empty and the first-inserted custom   *)
(* style otherwise, whatever enable_speaker_detection is.                  *)
C7_DefaultOrFirstCustom ==
    NoSpeakerLabels =>
        \A g \in 1..Len(subtitle_groups) : Emitted(g) =>
            IF config.speaker_styles = <<>> THEN GroupUsesDefault(g)
                                            ELSE GroupUsesFirstCustom(g)

\* an unlabelled transcription was emitted under speaker detection with two
\* custom styles: all its events carry the first-inserted style
C7_Witness ==
    /\ pc = "done"
    /\ NoSpeakerLabels
    /\ config.enable_speaker_detection
    /\ Len(config.speaker_styles) = 2
    /\ events # <<>>
    /\ \A i \in 1..Len(events) :
          events[i].style = "Speaker_" \o config.speaker_styles[1].id

-----------------------------------------------------------------------------
(* Event synthesis: sampled timestamps against every highlighting switch *)

\* timestamps (ms): 0.0, 0.135 (a tie that round() takes up to 0.14) and
\* 0.29 (whole centiseconds that ass_time() prints as .28)
TimeSamples == {0, 135, 290}

\* streams of at most n words, each with start <= end, in the order of their
\* starts; texts plain or terminated inside blanks
RECURSIVE TimedStreams(_)
TimedStreams(n) ==
    IF n = 0 THEN {<<>>}
    ELSE LET shorter == TimedStreams(n - 1)
         IN  shorter \cup
             UNION {{Append(ws, Word(tx, t[1], t[2], None)) :
                        tx \in {<<"a">>, <<" ", "c", "!", " ">>},
                        t \in {x \in TimeSamples \X TimeSamples :
                                  /\ x[1] <= x[2]
                                  /\ ws # <<>> => Last(ws).start <= x[1]}} :
                    ws \in {x \in shorter : Len(x) = n - 1}}

\* the default style with the switches the event loop reads
EventStyles ==
    {SpeakerStyle("&H00FFFFFF", "&H0000FFFF", hbold, caps, hl, anim, 200, 200) :
        hbold \in BOOLEAN, caps \in BOOLEAN, hl \in BOOLEAN,
        anim \in {"AnimationStyle.NONE", "AnimationStyle.FADE_IN"}}

InitEvents ==
    \E w \in {2, FullSentence}, hl \in BOOLEAN, style \in EventStyles,
       ws \in TimedStreams(MaxTimedWords) :
       Start(SubtitleConfig(w, <<>>, style, FALSE, hl, TRUE), <<Segment(ws)>>)

SpecEvents == InitEvents /\ [][Next]_vars

\* "H:MM:SS.cc" of a timestamp, its digits below a centisecond dropped
Stamp(t) ==
    [h  |-> t \div 3600000,
     m  |-> (t % 3600000) \div 60000,
     s  |-> (t % 60000) \div 1000,
     cs |-> (t % 1000) \div 10]

\* the events of group g in the order written
EventSeqOfGroup(g) ==
    SelectSeq([i \in 1..Len(events) |-> [e |-> events[i], o |-> origin[i]]],
              LAMBDA x : x.o.group = g)

\* the style the event loop resolves for group g
StyleOf(g) == ResolveStyle(subtitle_groups[g], config).style

\* word highlighting is on in the config and on the style of group g
HighlightingOn(g) ==
    config.enable_word_highlighting /\ StyleOf(g).enable_word_highlighting

(* C8 as stated: the per-word events e[1..n] of a highlighted group of at  *)
(* least 2 words satisfy e[i].end = e[i+1].start, e[i].start is the start  *)
(* of word i rounded to 2 decimals, and e[n].end is the end of word n      *)
(* rounded to 2 decimals.                                                  *)
C8_SeamlessRoundedTiming ==
    \A g \in 1..Len(subtitle_groups) :
        (Emitted(g) /\ HighlightingOn(g) /\ Len(subtitle_groups[g].words) >= 2) =>
            LET words == subtitle_groups[g].words
                es    == EventSeqOfGroup(g)
                n     == Len(words)
            IN  /\ Len(es) = n
                /\ \A i \in 1..n - 1 : es[i].e.end = es[i + 1].e.start
                /\ \A i \in 1..n : es[i].e.start = Stamp(Round2(words[i].start))
                /\ es[n].e.end = Stamp(Round2(words[n].end))

\* the text of a word as the events show it: trimmed, upper case if the style
\* asks for it
Shown(word, style) ==
    LET inked   == {k \in 1..Len(word.word) : word.word[k] \notin Whitespace}
        first   == CHOOSE k \in inked : \A j \in inked : k <= j
        last    == CHOOSE k \in inked : \A j \in inked : k >= j
        trimmed == IF inked = {} THEN <<>> ELSE SubSeq(word.word, first, last)
    IN  IF style.all_caps THEN [k \in 1..Len(trimmed) |-> UpperChar(trimmed[k])]
                          ELSE trimmed

\* word i of the group inside the highlight tags of the style
Wrapped(word, style) ==
    (IF style.highlight_bold THEN <<"{\\b1}">> ELSE <<>>)
    \o <<"{\\c" \o style.highlight_color \o "}">>
    \o Shown(word, style)
    \o <<"{\\c" \o style.primary_color \o "}">>
    \o (IF style.highlight_bold THEN <<"{\\b0}">> ELSE <<>>)

\* the words of the group separated by single blanks, word i wrapped
RECURSIVE LineWithWord(_, _, _, _)
LineWithWord(words, i, style, from) ==
    IF from > Len(words) THEN <<>>
    ELSE (IF from > 1 THEN <<" ">> ELSE <<>>)
         \o (IF from = i THEN Wrapped(words[from], style)
                         ELSE Shown(words[from], style))
         \o LineWithWord(words, i, style, from + 1)

(* C9: with word highlighting on in the config and on the resolved style,  *)
(* a group of n words produces exactly n Dialogue events, in word order,   *)
(* and the text of the i-th is the n words joined by blanks with exactly   *)
(* the i-th word inside the highlight tags and every other word bare.      *)
C9_OneEventPerWord ==
    \A g \in 1..Len(subtitle_groups) : (Emitted(g) /\ HighlightingOn(g)) =>
        LET words == subtitle_groups[g].words
            es    == EventSeqOfGroup(g)
        IN  /\ Len(es) = Len(words)
            /\ \A i \in 1..Len(es) :
                  /\ es[i].o.word = i
                  /\ es[i].e.text = LineWithWord(words, i, StyleOf(g), 1)

\* a highlighted group of 2 words, the second one trimmed, was written as 2
\* events
C9_Witness ==
    /\ pc = "done"
    /\ \E g \in 1..Len(subtitle_groups) :
          /\ HighlightingOn(g)
          /\ Len(subtitle_groups[g].words) = 2
          /\ subtitle_groups[g].words[2].word = <<" ", "c", "!", " ">>
          /\ StyleOf(g).animation = "AnimationStyle.FADE_IN"
          /\ Len(EventSeqOfGroup(g)) = 2

(* C10 as stated: with word highlighting off in the config or on the       *)
(* resolved style, each group produces exactly one Dialogue event, whose   *)
(* start is the start of the group's first word and whose end is the end   *)
(* of its last word.                                                       *)
C10_OneEventPerGroup ==
    \A g \in 1..Len(subtitle_groups) : (Emitted(g) /\ ~HighlightingOn(g)) =>
        LET words == subtitle_groups[g].words
            es    == EventSeqOfGroup(g)
        IN  /\ Len(es) = 1
            /\ es[1].e.start = Stamp(words[1].start)
            /\ es[1].e.end = Stamp(Last(words).end)

-----------------------------------------------------------------------------
(* Entrance animation: cli.py:11-49, 343-347, 383-386 *)

\* the str values of the AnimationStyle members that have an effect
AnimatedValues ==
    {"fade_in", "slide_up", "scale_in", "type_writer", "bounce", "pulse"}

\* the value of an AnimationStyle member (config.py:46-52)
ValueOf(member) ==
    CASE member = "AnimationStyle.NONE"        -> "none"
      [] member = "AnimationStyle.FADE_IN"     -> "fade_in"
      [] member = "AnimationStyle.SLIDE_UP"    -> "slide_up"
      [] member = "AnimationStyle.SCALE_IN"    -> "scale_in"
      [] member = "AnimationStyle.TYPE_WRITER" -> "type_writer"
      [] member = "AnimationStyle.BOUNCE"      -> "bounce"
      [] member = "AnimationStyle.PULSE"       -> "pulse"
      [] OTHER                                 -> member

\* every token an entrance animation of the style would write
AnimationTokens(style) ==
    UNION {Range(get_animation_tags(v, style)) : v \in AnimatedValues}

\* the style asks for an effect and has a fade duration to run it over
Animated(style) ==
    /\ ValueOf(style.animation) \in AnimatedValues
    /\ style.fade_in_duration # 0 \/ style.fade_out_duration # 0

(* C11 as stated: for an emitted group whose resolved style has animation  *)
(* FADE_IN and a non-zero fade duration, the text of the group's first     *)
(* event begins with the fade tag \fad(fadeInMs,fadeOutMs) of the style's  *)
(* durations; for the other effects it begins with a non-empty tag.        *)
C11_FirstEventBeginsWithTag ==
    \A g \in 1..Len(subtitle_groups) : (Emitted(g) /\ Animated(StyleOf(g))) =>
        LET es   == EventSeqOfGroup(g)
            text == es[1].e.text
        IN  /\ es # <<>>
            /\ text # <<>>
            /\ Head(text) \in AnimationTokens(StyleOf(g))
            /\ StyleOf(g).animation = "AnimationStyle.FADE_IN" =>
                  Head(text) = "{\\fad(" \o ToString(StyleOf(g).fade_in_duration)
                               \o "," \o ToString(StyleOf(g).fade_out_duration) \o ")}"

-----------------------------------------------------------------------------
(* Chunking and the segment boundaries *)

\* the words of segments 1..n, in input order
WordsUpTo(n) == Concat([k \in 1..n |-> result[k].words])

\* the chunking loop is between two segments, or behind the last one
BetweenSegments == pc \notin {"sentence", "window"}

(* C13: every group's words all belong to one segment; the sentence buffer *)
(* holds words of the current segment only; and once a segment has been    *)
(* chunked its last word is the last word of its final group, so an open   *)
(* buffer was flushed and not carried into the next segment.               *)
C13_GroupsWithinOneSegment ==
    /\ \A g \in 1..Len(subtitle_groups) :
          \E k \in 1..Len(result) :
              Range(subtitle_groups[g].words) \subseteq Range(result[k].words)
    /\ pc = "sentence" => Range(current_sentence) \subseteq Range(result[seg].words)
    /\ BetweenSegments => current_sentence = <<>>
    /\ \A k \in 1..Len(result) : (Chunked(k) /\ result[k].words # <<>>) =>
          /\ GroupsOfSegment(k) # <<>>
          /\ Last(Last(GroupsOfSegment(k)).words) = Last(result[k].words)

\* sentence mode over two segments with words, the first one ending in a
\* word without terminator: its open buffer became a group of its own
C13_Witness ==
    /\ pc = "done"
    /\ SentenceMode(config)
    /\ Len(result) = 2
    /\ result[1].words # <<>> /\ result[2].words # <<>>
    /\ ~Terminated(Last(result[1].words))
    /\ Len(subtitle_groups) >= 2
    /\ Last(subtitle_groups[1].words) = Last(result[1].words)

(* C14: in both policies (max_words >= 1) every group has at least one     *)
(* word, and whenever the loop is between segments the words of the groups *)
(* emitted so far, concatenated in emission order, are the words of the    *)
(* segments chunked so far in input order; so a segment with an empty word *)
(* list adds no group and no word is dropped, duplicated or reordered.     *)
C14_WordConservation ==
    /\ \A g \in 1..Len(subtitle_groups) : subtitle_groups[g].words # <<>>
    /\ (BetweenSegments /\ config.max_words_per_subtitle >= 1) =>
          Concat(WordLists(subtitle_groups)) = WordsUpTo(seg - 1)

\* sentence mode, a segment with an empty word list and a segment ending in
\* an open buffer: the run is over and the flush kept the words
C14_Witness ==
    /\ pc = "done"
    /\ SentenceMode(config)
    /\ \E k \in 1..Len(result) : result[k].has_words /\ result[k].words = <<>>
    /\ \E k \in 1..Len(result) :
          /\ Len(result[k].words) >= 2
          /\ ~Terminated(Last(result[k].words))
    /\ subtitle_groups # <<>>

-----------------------------------------------------------------------------
(* The speaker of a group *)

\* the group holds words of different speaker labels
MixedSpeakers(group) ==
    \E i, j \in 1..Len(group.words) : group.words[i].speaker # group.words[j].speaker

(* C15: in both policies a group's speaker is the speaker label of its     *)
(* first word (None if that word has none), whatever the labels of its     *)
(* other words; and the number of groups of a segment does not depend on   *)
(* the labels: ceil(N/W) under a fixed window, one group for a sentence    *)
(* without terminator below the cap.                                       *)
C15_SpeakerOfFirstWord ==
    /\ \A g \in 1..Len(subtitle_groups) :
          subtitle_groups[g].speaker = subtitle_groups[g].words[1].speaker
    /\ \A k \in 1..Len(result) :
          (/\ Chunked(k)
           /\ \A j \in 1..Len(result[k].words) : ~Terminated(result[k].words[j])
           /\ Len(result[k].words) < SentenceCap) =>
              Len(GroupsOfSegment(k)) =
                  IF SentenceMode(config)
                     THEN Min(1, Len(result[k].words))
                     ELSE CeilDiv(Len(result[k].words), config.max_words_per_subtitle)

\* a group whose first two words have different labels was built: in
\* sentence mode with a first word without label, under a fixed window with
\* a first word labelled SPEAKER_02
C15_Witness ==
    /\ pc = "done"
    /\ \E g \in 1..Len(subtitle_groups) :
          LET group == subtitle_groups[g]
          IN  /\ Len(group.words) >= 2
              /\ MixedSpeakers(group)
              /\ group.words[1].speaker # group.words[2].speaker
              /\ group.speaker = group.words[1].speaker
              /\ \/ SentenceMode(config) /\ group.words[1].speaker = None
                 \/ ~SentenceMode(config) /\ group.words[1].speaker = "SPEAKER_02"

-----------------------------------------------------------------------------
(* The style table of the track *)

\* the header and the style table have been written
TableWritten == pc \in {"events", "done"}

\* the rows of the style table with the given name
RowsNamed(name) == {r \in 1..Len(styles) : styles[r].name = name}

(* C16: in every track the style table starts with the Default row, then   *)
(* has one row named Speaker_{id} per entry of speaker_styles, and the     *)
(* style name of every Dialogue event names exactly one row of the table.  *)
C16_StyleTableCoversEvents ==
    TableWritten =>
        /\ Len(styles) = 1 + Len(config.speaker_styles)
        /\ styles[1].name = "Default"
        /\ styles[1].style = config.default_style
        /\ \A k \in 1..Len(config.speaker_styles) :
              /\ styles[k + 1].name = "Speaker_" \o config.speaker_styles[k].id
              /\ styles[k + 1].style = config.speaker_styles[k].style
        /\ \A i \in 1..Len(events) : Cardinality(RowsNamed(events[i].style)) = 1

\* a finished track with two custom styles whose events use the Default row
\* and a Speaker_ row
C16_Witness ==
    /\ pc = "done"
    /\ Len(config.speaker_styles) = 2
    /\ \E i, j \in 1..Len(events) :
          /\ events[i].style = "Default"
          /\ events[j].style = "Speaker_" \o config.speaker_styles[2].id

-----------------------------------------------------------------------------
(* Batches: several inputs, transcriptions that fail, the files written *)

\* what transcribe() returns for an input of a batch: no segment, or one
\* segment of two words of which one carries a speaker label
BatchTranscriptions ==
    {<<>>,
     <<Segment(<<SpokenWord(<<"a">>, 1, None), SpokenWord(<<"a">>, 2, "SPEAKER_00")>>)>>,
     <<Segment(<<SpokenWord(<<"a">>, 1, "SPEAKER_00"), SpokenWord(<<"a">>, 2, None)>>)>>}

\* the inputs of a batch: a base name with a transcription or with a failure
BatchInputs ==
    {Input(b, r) : b \in BaseNames, r \in BatchTranscriptions}
    \cup {FailingInput(b) : b \in BaseNames}

\* batches of 1..n inputs
Batches(n) == UNION {[1..k -> BatchInputs] : k \in 1..n}

InitBatch ==
    \E w \in {1, FullSentence}, hl \in BOOLEAN, out_srt \in BOOLEAN,
       batch \in Batches(MaxInputs) :
       Enter(SubtitleConfig(w, <<>>, DefaultStyle, FALSE, hl, out_srt), batch)

SpecBatch == InitBatch /\ [][Next]_vars

\* the files of the current input have been closed
InputDone == pc = "done"

(* C17: when config.output_srt is true the SRT file of an input has one    *)
(* entry per group, in group order, numbered 1..G, with the group's times, *)
(* and an entry's text is the group's text behind the "[speaker] " prefix  *)
(* exactly when the group has a speaker; when output_srt is false no SRT   *)
(* file exists.                                                            *)
C17_SrtOneEntryPerGroup ==
    /\ ~config.output_srt => \A b \in BaseNames : ~Exists(files[SrtPath(b)])
    /\ (InputDone /\ config.output_srt) =>
          LET f       == files[SrtPath(audio_paths[input].base_name)]
              entries == f.content
          IN  /\ Exists(f)
              /\ f.by = input /\ f.closed
              /\ Len(entries) = Len(subtitle_groups)
              /\ \A i \in 1..Len(entries) :
                    LET group == subtitle_groups[i]
                    IN  /\ entries[i].index = i
                        /\ entries[i].start.ms = group.words[1].start % 1000
                        /\ entries[i].end.ms = Last(group.words).end % 1000
                        /\ group.speaker # None =>
                              entries[i].text =
                                  <<"[", group.speaker, "]", " ">> \o group.text
                        /\ group.speaker = None => entries[i].text = group.text

\* a highlighted track of two per-word events for one group, and an SRT file
\* of one entry; and a batch whose SRT file has an entry without prefix
C17_Witness ==
    /\ InputDone
    /\ config.output_srt
    /\ \/ /\ config.enable_word_highlighting
          /\ Len(events) = 2
          /\ Len(subtitle_groups) = 1
          /\ subtitle_groups[1].speaker = "SPEAKER_00"
          /\ Len(files[SrtPath(audio_paths[input].base_name)].content) = 1
       \/ /\ Len(subtitle_groups) = 2
          /\ subtitle_groups[1].speaker = None
          /\ Len(files[SrtPath(audio_paths[input].base_name)].content) = 2

\* the inputs before the current one
Earlier == 1..(input - 1)

(* C18: when transcribe raises for an input, get_subtitles is left with    *)
(* that exception; no file of the output directory was opened or written   *)
(* for the failing input; and every earlier input of the batch has its     *)
(* track files on disk, closed.                                            *)
C18_TranscriberFailure ==
    raised # None =>
        /\ pc = "raised"
        /\ raised = audio_paths[input].raises
        /\ \A f \in FileNames : Exists(files[f]) =>
              files[f].closed /\ files[f].by \in Earlier
        /\ \A i \in Earlier :
              /\ Exists(files[AssPath(audio_paths[i].base_name)])
              /\ config.output_srt => Exists(files[SrtPath(audio_paths[i].base_name)])

\* the second input of a batch failed after the first one, of another base
\* name, had been written
C18_Witness ==
    /\ raised # None
    /\ input = 2
    /\ audio_paths[1].base_name # audio_paths[2].base_name
    /\ Exists(files[AssPath(audio_paths[1].base_name)])
    /\ ~Exists(files[AssPath(audio_paths[2].base_name)])

-----------------------------------------------------------------------------
(* Concurrent jobs: api.py:34-152 process_video, cli.py:125-141 get_audio. *)
(* Each job runs process_video on the video of its own job directory       *)
(* (webapp.py:342-351); the steps of a job are its file accesses.          *)

\* utils.py:62-63  filename(path) of the uploaded videos
VideoNames == {"input_talk", "input_demo"}

\* webapp.py:342  os.path.join(UPLOAD_DIR, job_id)
JobDir(j) == "uploads/job" \o ToString(j)

\* webapp.py:346  the video of job j
VideoPath(j, video) == JobDir(j) \o "/" \o video \o ".mp4"

\* webapp.py:351  the output directory of job j
OutputDir(j) == JobDir(j) \o "/output"

\* cli.py:126, 132  os.path.join(tempfile.gettempdir(), f"{filename(path)}.wav")
WavPath(video) == "tmp/" \o video \o ".wav"

\* api.py:119  f"{filename(original_path)}_subtitled.mp4" in the output directory
SubtitledPath(j, video) == OutputDir(j) \o "/" \o video \o "_subtitled.mp4"

\* a job that has not started: its video, whether speaker detection is on,
\* the paths it has read and written, and the jobs whose audio it has heard
Job(video, detect) ==
    [pc |-> "get_audio", video |-> video, detect |-> detect,
     read |-> {}, wrote |-> {}, heard |-> {}]

\* the state of job j after reading and writing the given paths
Accessed(j, reads, writes) ==
    [jobs[j] EXCEPT !.read = @ \cup reads, !.wrote = @ \cup writes]

\* no call of get_subtitles of the single-process machine is running
SubtitlesIdle ==
    Entered(SubtitleConfig(4, <<>>, DefaultStyle, FALSE, TRUE, FALSE), <<>>)

\* the get_subtitles machine and validate_config stand still
OnlyJobs ==
    UNCHANGED <<config, result, pc, seg, pos, current_sentence, subtitle_groups,
                gi, styles, events, origin, srt, batchVars, files, config_dict,
                validation, helperVars, webVars>>

\* api.py:54-61, cli.py:125-141  makedirs, parse, get_audio([video_path]):
\* ffmpeg reads the video and writes (overwrites) the wav of the temp dir
ExtractAudio(j) ==
    /\ jobs[j].pc = "get_audio"
    /\ tempdir' = [tempdir EXCEPT ![WavPath(jobs[j].video)] = j]
    /\ jobs' = [jobs EXCEPT ![j] =
          [Accessed(j, {VideoPath(j, jobs[j].video)},
                       {OutputDir(j), WavPath(jobs[j].video)})
              EXCEPT !.pc = IF jobs[j].detect THEN "detect" ELSE "get_subtitles"]]
    /\ OnlyJobs

\* api.py:76-86  the pre-processing transcription of the wav
DetectSpeakers(j) ==
    /\ jobs[j].pc = "detect"
    /\ jobs' = [jobs EXCEPT ![j] =
          [Accessed(j, {WavPath(jobs[j].video)}, {})
              EXCEPT !.pc = "get_subtitles",
                     !.heard = @ \cup {tempdir[WavPath(jobs[j].video)]}]]
    /\ UNCHANGED tempdir
    /\ OnlyJobs

\* api.py:110  get_subtitles(audio_paths, output_dir, ...): transcribes the
\* wav and writes the track into the job's output directory
GetSubtitles(j) ==
    /\ jobs[j].pc = "get_subtitles"
    /\ jobs' = [jobs EXCEPT ![j] =
          [Accessed(j, {WavPath(jobs[j].video)},
                       {OutputDir(j) \o "/" \o AssPath(jobs[j].video)})
              EXCEPT !.pc = "burn",
                     !.heard = @ \cup {tempdir[WavPath(jobs[j].video)]}]]
    /\ UNCHANGED tempdir
    /\ OnlyJobs

\* api.py:113-136  ffmpeg burns the track into the video
BurnVideo(j) ==
    /\ jobs[j].pc = "burn"
    /\ jobs' = [jobs EXCEPT ![j] =
          [Accessed(j, {VideoPath(j, jobs[j].video),
                        OutputDir(j) \o "/" \o AssPath(jobs[j].video)},
                       {SubtitledPath(j, jobs[j].video)})
              EXCEPT !.pc = "done"]]
    /\ UNCHANGED tempdir
    /\ OnlyJobs

ProcessVideo ==
    \E j \in DOMAIN jobs :
        \/ ExtractAudio(j)
        \/ DetectSpeakers(j)
        \/ GetSubtitles(j)
        \/ BurnVideo(j)

\* 2..MaxJobs jobs, each with a video of its own job directory
InitJobs ==
    /\ SubtitlesIdle
    /\ HelpersIdle
    /\ config_dict = None
    /\ validation = NotCalled
    /\ tempdir = [w \in {WavPath(v) : v \in VideoNames} |-> 0]
    /\ \E n \in 2..MaxJobs :
          \E video \in [1..n -> VideoNames], detect \in [1..n -> BOOLEAN] :
              jobs = [j \in 1..n |-> Job(video[j], detect[j])]

SpecJobs == InitJobs /\ [][ProcessVideo]_vars

(* C19 as stated: for two process_video invocations running concurrently   *)
(* for different jobs, no file written by one is read or written by the    *)
(* other, whatever the two video paths are, equal base names included.     *)
C19_NoSharedFiles ==
    \A j, k \in DOMAIN jobs : j # k =>
        jobs[j].wrote \cap (jobs[k].read \cup jobs[k].wrote) = {}

-----------------------------------------------------------------------------
(* The pre-flight validator: api.py:434-506.  A Python value is its type,  *)
(* its number (for int) and its characters (for str).                      *)

Py(t, n, str) == [t |-> t, n |-> n, s |-> str]

IntVal(n) == Py("int", n, <<>>)

StrVal(str) == Py("str", 0, str)

NoneVal == Py("NoneType", 0, <<>>)

\* a list value, e.g. ['a']: unhashable
ListVal(str) == Py("list", 0, str)

\* the key is not in the dictionary
Missing == Py("missing", 0, <<>>)

\* dict.get(key, default)
Get(value, default) == IF value = Missing THEN default ELSE value

\* isinstance(x, int)
IsInt(x) == x.t = "int"

\* isinstance(x, str)
IsStr(x) == x.t = "str"

\* hash(x) raises TypeError
Unhashable(x) == x.t \in {"list", "dict"}

\* bool(x) of the values a speaker_id takes
Truthy(x) ==
    CASE x.t = "NoneType" -> FALSE
      [] x.t = "int"      -> x.n # 0
      [] OTHER            -> x.s # <<>>

HexDigits ==
    {"0", "1", "2", "3", "4", "5", "6", "7", "8", "9",
     "A", "B", "C", "D", "E", "F", "a", "b", "c", "d", "e", "f"}

\* int() skips one sign in front of the digits
AfterSign(text) ==
    IF text # <<>> /\ text[1] \in {"+", "-"} THEN Tail(text) ELSE text

\* int(..., 16) skips a 0x or 0X prefix and one underscore behind it
AfterPrefix(text) ==
    IF Len(text) >= 2 /\ text[1] = "0" /\ text[2] \in {"x", "X"}
       THEN LET rest == SubSeq(text, 3, Len(text))
            IN  IF rest # <<>> /\ rest[1] = "_" THEN Tail(rest) ELSE rest
       ELSE text

\* hex digits, single underscores between them allowed
HexBody(text) ==
    /\ text # <<>>
    /\ \A k \in 1..Len(text) : text[k] \in HexDigits \cup {"_"}
    /\ text[1] # "_" /\ text[Len(text)] # "_"
    /\ \A k \in 1..(Len(text) - 1) : ~(text[k] = "_" /\ text[k + 1] = "_")

\* int(text, 16) does not raise ValueError: blanks around, a sign, a 0x prefix
\* and underscores between digits are accepted
ParsesAsHex(text) == HexBody(AfterPrefix(AfterSign(Strip(text))))

\* str.startswith(prefix)
StartsWith(text, prefix) ==
    Len(text) >= Len(prefix) /\ SubSeq(text, 1, Len(prefix)) = prefix

\* api.py:332-344  the values of get_supported_positions()
valid_positions ==
    {<<"bottom_left">>, <<"bottom_center">>, <<"bottom_right">>,
     <<"middle_left">>, <<"middle_center">>, <<"middle_right">>,
     <<"top_left">>, <<"top_center">>, <<"top_right">>}

\* an entry of the speakers list that is a dictionary
SpeakerDict(speaker_id, font_size, color, position) ==
    [t |-> "dict", speaker_id |-> speaker_id, font_size |-> font_size,
     color |-> color, position |-> position]

\* an entry of the speakers list that is no dictionary
NotADict(t) ==
    [t |-> t, speaker_id |-> Missing, font_size |-> Missing, color |-> Missing,
     position |-> Missing]

\* f"Speaker {index}: "
Prefix(index) == "Speaker " \o ToString(index) \o ": "

\* api.py:471-506  _validate_speaker_config(speaker, index)
_validate_speaker_config(speaker, index) ==
    LET prefix     == Prefix(index)
        speaker_id == Get(speaker.speaker_id, NoneVal)
        font_size  == Get(speaker.font_size, IntVal(30))
        color      == Get(speaker.color, StrVal(<<"#", "F", "F", "F", "F", "F", "F">>))
        position   == Get(speaker.position, StrVal(<<"bottom_center">>))
    IN  IF speaker.t # "dict" THEN <<prefix \o "Must be a dictionary">>
        ELSE
          (IF ~Truthy(speaker_id) \/ ~IsStr(speaker_id)
              THEN <<prefix \o "speaker_id is required and must be a string">>
              ELSE <<>>)
          \o
          (IF ~IsInt(font_size) \/ font_size.n < 8 \/ font_size.n > 100
              THEN <<prefix \o "font_size must be an integer between 8 and 100">>
              ELSE <<>>)
          \o
          (IF ~IsStr(color) THEN <<>>
           ELSE IF StartsWith(color.s, <<"#">>) /\ Len(color.s) = 7
              THEN (IF ParsesAsHex(Tail(color.s)) THEN <<>>
                    ELSE <<prefix \o "Invalid hex color format">>)
           ELSE IF ~StartsWith(color.s, <<"&", "H">>)
              THEN <<prefix \o "Color must be hex (#RRGGBB) or ASS format (&H00BBGGRR)">>
           ELSE <<>>)
          \o
          (IF IsStr(position) /\ position.s \in valid_positions THEN <<>>
           ELSE <<prefix \o "Invalid position. Must be one of: [...]">>)

\* the errors of speakers[0..], in list order
RECURSIVE SpeakerErrors(_, _)
SpeakerErrors(speakers, i) ==
    IF i > Len(speakers) THEN <<>>
    ELSE _validate_speaker_config(speakers[i], i - 1) \o SpeakerErrors(speakers, i + 1)

\* iter(x) does not raise TypeError
Iterable(x) == x.t \in {"list", "str", "dict"}

\* api.py:461  [s.get('speaker_id') for s in speakers if isinstance(s, dict)]
SpeakerIdsOf(items) ==
    LET dicts == SelectSeq(items, LAMBDA x : x.t = "dict")
    IN  [k \in 1..Len(dicts) |-> Get(dicts[k].speaker_id, NoneVal)]

\* the call returned normally
Returned(errors, warnings) ==
    [called |-> TRUE, raises |-> None, valid |-> errors = <<>>, errors |-> errors,
     warnings |-> warnings]

\* the call was left by an exception
Raised(exception) ==
    [called |-> TRUE, raises |-> exception, valid |-> FALSE, errors |-> <<>>,
     warnings |-> <<>>]

\* api.py:434-469  validate_config(config_dict)
validate_config(d) ==
    LET max_words == Get(d.max_words, IntVal(4))
        speakers  == IF d.speakers.t = "missing"
                        THEN [t |-> "list", items |-> <<>>] ELSE d.speakers
        e1 == IF ~IsInt(max_words) \/ max_words.n < 1
                 THEN <<"max_words must be a positive integer">> ELSE <<>>
        warnings == IF IsInt(max_words) /\ max_words.n >= 1 /\ max_words.n > 50
                       THEN <<"max_words > 50 may result in very long subtitles">>
                       ELSE <<>>
        e2 == IF speakers.t # "list" THEN <<"speakers must be a list">>
              ELSE SpeakerErrors(speakers.items, 1)
        speaker_ids == SpeakerIdsOf(speakers.items)
        e3 == IF Cardinality(Range(speaker_ids)) # Len(speaker_ids)
                 THEN <<"Duplicate speaker IDs found">> ELSE <<>>
    IN  IF ~Iterable(speakers) THEN Raised("TypeError")
        ELSE IF \E k \in 1..Len(speaker_ids) : Unhashable(speaker_ids[k])
                THEN Raised("TypeError")
        ELSE Returned(e1 \o e2 \o e3, warnings)

\* the get_subtitles machine and the jobs stand still
OnlyValidation ==
    UNCHANGED <<config, result, pc, seg, pos, current_sentence, subtitle_groups,
                gi, styles, events, origin, srt, batchVars, files, jobs, tempdir,
                helperVars, webVars>>

\* a caller runs validate_config on its dictionary
Validate ==
    /\ ~validation.called
    /\ validation' = validate_config(config_dict)
    /\ UNCHANGED config_dict
    /\ OnlyValidation

\* values of max_words: absent, integers around the limits 1 and 50, a str,
\* and the "full_sentence" that the parser reads as 999 (api.py:182-184)
MaxWordsValues ==
    {Missing, IntVal(0), IntVal(4), IntVal(51), StrVal(<<"4">>),
     StrVal(<<"full_sentence">>)}

\* entries of a speakers list
SpeakerEntries ==
    {NotADict("int"), NotADict("str")}
    \cup {SpeakerDict(id, Missing, Missing, Missing) :
             id \in {Missing, StrVal(<<"a">>), StrVal(<<"b">>), IntVal(5),
                     ListVal(<<"a">>)}}
    \cup {SpeakerDict(StrVal(<<"a">>), size, Missing, Missing) :
             size \in {IntVal(7), IntVal(100), StrVal(<<"30">>)}}
    \cup {SpeakerDict(StrVal(<<"a">>), Missing, StrVal(color), Missing) :
             color \in {<<"#", "G", "G", "G", "G", "G", "G">>, <<"r", "e", "d">>,
                        <<"&", "H", "0", "0">>, <<"#", "+", "F", "F", "F", "F", "F">>}}
    \cup {SpeakerDict(StrVal(<<"a">>), Missing, IntVal(5), position) :
             position \in {StrVal(<<"top_left">>), StrVal(<<"center">>), IntVal(5)}}

\* values of speakers: absent, lists, and values that are no list (a str and
\* a dict, which can be iterated; None and an int, which cannot)
SpeakersValues ==
    {[t |-> "missing", items |-> <<>>]}
    \cup UNION {{[t |-> "list", items |-> items] : items \in [1..k -> SpeakerEntries]} :
                   k \in 0..MaxSpeakers}
    \cup {[t |-> "str", items |-> <<NotADict("str")>>],
          [t |-> "dict", items |-> <<NotADict("str")>>],
          [t |-> "NoneType", items |-> <<>>],
          [t |-> "int", items |-> <<>>]}

InitValidate ==
    /\ SubtitlesIdle
    /\ HelpersIdle
    /\ jobs = <<>>
    /\ tempdir = {}
    /\ validation = NotCalled
    /\ \E max_words \in MaxWordsValues, speakers \in SpeakersValues :
          config_dict = [max_words |-> max_words, speakers |-> speakers]

SpecValidate == InitValidate /\ [][Validate]_vars


(* C20 as stated: for every configuration dictionary, validate_config      *)
(* returns {valid, errors, warnings} with valid = (errors is empty) and    *)
(* raises no exception.                                                    *)
C20_ValidatorNeverRaises ==
    validation.called =>
        /\ validation.raises = None
        /\ validation.valid = (validation.errors = <<>>)

-----------------------------------------------------------------------------
(* What the validator rejects *)

\* the entries of the speakers list that are dictionaries
SpeakerDictsOf(d) ==
    IF d.speakers.t = "list"
       THEN SelectSeq(d.speakers.items, LAMBDA x : x.t = "dict") ELSE <<>>

\* # followed by 6 hex digits, or an ASS colour &H...
WellFormedColor(color) ==
    \/ /\ Len(color.s) = 7
       /\ color.s[1] = "#"
       /\ \A k \in 2..7 : color.s[k] \in HexDigits
    \/ /\ Len(color.s) >= 2
       /\ color.s[1] = "&" /\ color.s[2] = "H"

\* one of the 9 supported position names
SupportedPosition(position) ==
    /\ position.t = "str"
    /\ position.s \in {<<"bottom_left">>, <<"bottom_center">>, <<"bottom_right">>,
                       <<"middle_left">>, <<"middle_center">>, <<"middle_right">>,
                       <<"top_left">>, <<"top_center">>, <<"top_right">>}

\* max_words below 1, a font size outside 8..100, a malformed colour string, an
\* unsupported position, or a speaker_id given twice
InvalidConfig(d) ==
    LET speakers == SpeakerDictsOf(d)
    IN  \/ d.max_words.t = "int" /\ d.max_words.n < 1
        \/ \E k \in 1..Len(speakers) :
              \/ /\ speakers[k].font_size.t = "int"
                 /\ speakers[k].font_size.n < 8 \/ speakers[k].font_size.n > 100
              \/ /\ speakers[k].color.t = "str"
                 /\ ~WellFormedColor(speakers[k].color)
              \/ /\ speakers[k].position.t # "missing"
                 /\ ~SupportedPosition(speakers[k].position)
        \/ \E j, k \in 1..Len(speakers) :
              /\ j # k
              /\ speakers[j].speaker_id.t # "missing"
              /\ speakers[j].speaker_id = speakers[k].speaker_id

(* C21 as stated: whenever max_words is less than 1, or a speaker has a    *)
(* font_size outside 8..100, a malformed color, a position outside the 9   *)
(* supported names, or two speakers share a speaker_id, the result that    *)
(* validate_config returns has valid = false and at least one error.       *)
C21_RejectsInvalidInput ==
    (validation.called /\ validation.raises = None /\ InvalidConfig(config_dict)) =>
        /\ ~validation.valid
        /\ validation.errors # <<>>

-----------------------------------------------------------------------------
(* Colour conversion: hex_to_ass_color (config.py) and _ass_to_hex (api.py) *)

Transparent == <<"t", "r", "a", "n", "s", "p", "a", "r", "e", "n", "t">>

\* "&H00FFFFFF"
AssWhite == <<"&", "H", "0", "0", "F", "F", "F", "F", "F", "F">>

\* "#FFFFFF"
HexWhite == <<"#", "F", "F", "F", "F", "F", "F">>

\* the conversion without the reversal of the channels
hex_to_ass_colorUnswapped(hex_color) ==
    IF StartsWith(hex_color, <<"#">>) /\ Len(hex_color) = 7
       THEN Upper(<<"&", "H", "0", "0">> \o SubSeq(hex_color, 2, 7))
       ELSE IF StartsWith(hex_color, <<"&", "H">>) THEN hex_color ELSE AssWhite

\* config.py:273-288  hex_to_ass_color
hex_to_ass_color(hex_color) ==
    IF hex_color = Transparent \/ hex_color = <<>>
       THEN Transparent
       ELSE IF StartsWith(hex_color, <<"#">>) /\ Len(hex_color) = 7
               THEN LET r == SubSeq(hex_color, 2, 3)
                        g == SubSeq(hex_color, 4, 5)
                        b == SubSeq(hex_color, 6, 7)
                    IN  Upper(<<"&", "H", "0", "0">> \o b \o g \o r)
               ELSE IF StartsWith(hex_color, <<"&", "H">>)
                       THEN hex_color
                       ELSE AssWhite

\* api.py:416-432  _ass_to_hex
_ass_to_hex(ass_color) ==
    IF StartsWith(ass_color, <<"&", "H">>)
       THEN LET hex_part == SubSeq(ass_color, 3, Len(ass_color))
            IN  IF Len(hex_part) >= 8
                   THEN LET b == SubSeq(hex_part, 3, 4)
                            g == SubSeq(hex_part, 5, 6)
                            r == SubSeq(hex_part, 7, 8)
                        IN  Upper(<<"#">> \o r \o g \o b)
                   ELSE IF Len(hex_part) >= 6
                           THEN LET b == SubSeq(hex_part, 1, 2)
                                    g == SubSeq(hex_part, 3, 4)
                                    r == SubSeq(hex_part, 5, 6)
                                IN  Upper(<<"#">> \o r \o g \o b)
                           ELSE HexWhite
       ELSE HexWhite

\* the helpers are the only thing that moves
OnlyHelpers ==
    UNCHANGED <<config, result, pc, seg, pos, current_sentence, subtitle_groups,
                gi, styles, events, origin, srt, batchVars, files, jobs, tempdir,
                validation, webVars>>

\* a colour of the frontend is converted for the style
ToAss ==
    /\ conversion.pc = "given"
    /\ conversion' = [conversion EXCEPT !.pc = "converted",
                                        !.ass = hex_to_ass_color(conversion.hex)]
    /\ UNCHANGED <<config_dict, parsed>>
    /\ OnlyHelpers

\* the colour of the style is converted back for the frontend
ToHex ==
    /\ conversion.pc = "converted"
    /\ conversion' = [conversion EXCEPT !.pc = "back",
                                        !.back = _ass_to_hex(conversion.ass)]
    /\ UNCHANGED <<config_dict, parsed>>
    /\ OnlyHelpers

Convert == ToAss \/ ToHex

\* two hex digits of a channel, in every letter case
HexPairs == {<<"0", "0">>, <<"f", "F">>, <<"A", "b">>, <<"3", "c">>}

\* #RRGGBB
WebColors == {<<"#">> \o r \o g \o b : r \in HexPairs, g \in HexPairs, b \in HexPairs}

\* what else reaches the converter: transparent, nothing, ASS colours with and
\* without alpha, a colour name, a short hex colour
OtherColors ==
    {Transparent, <<>>,
     <<"&", "H", "8", "0", "f", "f", "0", "0", "3", "c">>,
     <<"&", "H", "f", "f", "0", "0", "3", "c">>,
     <<"&", "H", "1", "2">>,
     <<"r", "e", "d">>,
     <<"#", "F", "F", "F">>}

InitColor ==
    /\ SubtitlesIdle
    /\ WebIdle
    /\ jobs = <<>>
    /\ tempdir = {}
    /\ config_dict = None
    /\ validation = NotCalled
    /\ parsed = NotParsed
    /\ \E color \in WebColors \cup OtherColors :
          conversion = [pc |-> "given", hex |-> color, ass |-> <<>>, back |-> <<>>]

SpecColor == InitColor /\ [][Convert]_vars

\* # followed by 6 hex digits
IsWebColor(color) ==
    /\ Len(color) = 7
    /\ color[1] = "#"
    /\ \A k \in 2..7 : color[k] \in HexDigits

\* equal but for the case of the letters
SameIgnoringCase(a, b) == Upper(a) = Upper(b)

(* C23: a web colour #RRGGBB, in any letter case, that went through         *)
(* hex_to_ass_color and back through _ass_to_hex is the same colour but for *)
(* the letter case, and the value in between is &H00BBGGRR: alpha 00 and    *)
(* the three channels in reverse order.                                     *)
C23_ColorRoundTrip ==
    IsWebColor(conversion.hex) =>
        /\ conversion.pc \in {"converted", "back"} =>
              /\ Len(conversion.ass) = 10
              /\ SubSeq(conversion.ass, 1, 4) = <<"&", "H", "0", "0">>
              /\ SameIgnoringCase(SubSeq(conversion.ass, 5, 6), SubSeq(conversion.hex, 6, 7))
              /\ SameIgnoringCase(SubSeq(conversion.ass, 7, 8), SubSeq(conversion.hex, 4, 5))
              /\ SameIgnoringCase(SubSeq(conversion.ass, 9, 10), SubSeq(conversion.hex, 2, 3))
        /\ conversion.pc = "back" =>
              SameIgnoringCase(conversion.back, conversion.hex)

\* a colour with lower-case digits and different red and blue went both ways
C23_Witness ==
    /\ conversion.pc = "back"
    /\ IsWebColor(conversion.hex)
    /\ conversion.back # conversion.hex
    /\ ~SameIgnoringCase(SubSeq(conversion.hex, 2, 3), SubSeq(conversion.hex, 6, 7))

-----------------------------------------------------------------------------
(* The configuration parser: VisubAPI._parse_subtitle_config (api.py)      *)

\* config.py:6-16  the attributes of SubtitlePosition in definition order
PositionAttributes ==
    <<"BOTTOM_CENTER", "BOTTOM_LEFT", "BOTTOM_RIGHT", "MIDDLE_LEFT", "MIDDLE_CENTER",
      "MIDDLE_RIGHT", "TOP_LEFT", "TOP_CENTER", "TOP_RIGHT">>

\* the values with middle-left on the numpad code 4
PositionValuesNumpad == <<2, 1, 3, 4, 5, 6, 7, 8, 9>>

\* config.py:8-16  their values
PositionValues == <<2, 1, 3, 9, 5, 6, 7, 8, 9>>

\* SubtitlePosition.<attribute>: an Enum attribute whose value was defined
\* before is an alias of the first member with that value
SubtitlePosition(attribute) ==
    LET k     == CHOOSE i \in 1..Len(PositionAttributes) : PositionAttributes[i] = attribute
        first == CHOOSE i \in 1..k :
                    /\ PositionValues[i] = PositionValues[k]
                    /\ \A j \in 1..(i - 1) : PositionValues[j] # PositionValues[k]
    IN  [name |-> PositionAttributes[first], value |-> PositionValues[first]]

\* api.py:201-215  font_map
font_map ==
    <<"Impact">> :> "FontFamily.IMPACT" @@
    <<"Arial Black">> :> "FontFamily.ARIAL_BLACK" @@
    <<"Bebas Neue">> :> "FontFamily.BEBAS_NEUE" @@
    <<"Montserrat Black">> :> "FontFamily.MONTSERRAT_BLACK" @@
    <<"Oswald">> :> "FontFamily.OSWALD" @@
    <<"Roboto Black">> :> "FontFamily.ROBOTO_BLACK" @@
    <<"Anton">> :> "FontFamily.ANTON" @@
    <<"Barlow">> :> "FontFamily.BARLOW" @@
    <<"Lato Black">> :> "FontFamily.LATO_BLACK" @@
    <<"Open Sans">> :> "FontFamily.OPEN_SANS_BOLD" @@
    <<"Nunito Black">> :> "FontFamily.NUNITO_BLACK" @@
    <<"Arial">> :> "FontFamily.ARIAL" @@
    <<"Helvetica">> :> "FontFamily.HELVETICA"

\* api.py:218-228  pos_map
pos_map ==
    <<"bottom_left">> :> SubtitlePosition("BOTTOM_LEFT") @@
    <<"bottom_center">> :> SubtitlePosition("BOTTOM_CENTER") @@
    <<"bottom_right">> :> SubtitlePosition("BOTTOM_RIGHT") @@
    <<"middle_left">> :> SubtitlePosition("MIDDLE_LEFT") @@
    <<"middle_center">> :> SubtitlePosition("MIDDLE_CENTER") @@
    <<"middle_right">> :> SubtitlePosition("MIDDLE_RIGHT") @@
    <<"top_left">> :> SubtitlePosition("TOP_LEFT") @@
    <<"top_center">> :> SubtitlePosition("TOP_CENTER") @@
    <<"top_right">> :> SubtitlePosition("TOP_RIGHT")

\* api.py:231-239  effect_map
effect_map ==
    <<"none">> :> "TextEffect.NONE" @@
    <<"glow">> :> "TextEffect.GLOW" @@
    <<"shadow">> :> "TextEffect.SHADOW" @@
    <<"outline">> :> "TextEffect.OUTLINE" @@
    <<"outline_glow">> :> "TextEffect.OUTLINE_GLOW" @@
    <<"double_outline">> :> "TextEffect.DOUBLE_OUTLINE" @@
    <<"drop_shadow">> :> "TextEffect.DROP_SHADOW"

\* api.py:242-250  anim_map
anim_map ==
    <<"none">> :> "AnimationStyle.NONE" @@
    <<"fade_in">> :> "AnimationStyle.FADE_IN" @@
    <<"slide_up">> :> "AnimationStyle.SLIDE_UP" @@
    <<"scale_in">> :> "AnimationStyle.SCALE_IN" @@
    <<"type_writer">> :> "AnimationStyle.TYPE_WRITER" @@
    <<"bounce">> :> "AnimationStyle.BOUNCE" @@
    <<"pulse">> :> "AnimationStyle.PULSE"

\* map.get(name, default) for a hashable name
MapGet(map, name, default) ==
    IF name.t = "str" /\ name.s \in DOMAIN map THEN map[name.s] ELSE default

\* api.py:200-215  safe_font_family
safe_font_family(font_name) == MapGet(font_map, font_name, "FontFamily.IMPACT")

\* the fallback of the dataclass instead of the parser's
safe_positionDataclassDefault(pos_name) ==
    MapGet(pos_map, pos_name, SubtitlePosition("MIDDLE_CENTER"))

\* api.py:217-228  safe_position
safe_position(pos_name) == MapGet(pos_map, pos_name, SubtitlePosition("BOTTOM_CENTER"))

\* api.py:230-240  safe_text_effect
safe_text_effect(effect_name) == MapGet(effect_map, effect_name, "TextEffect.OUTLINE")

\* api.py:241-251  safe_animation
safe_animation(anim_name) == MapGet(anim_map, anim_name, "AnimationStyle.NONE")

\* a speaker entry of the dictionary
SpeakerConfig(speaker_id, font_family, position, effect, animation, size, color) ==
    [t |-> "dict", speaker_id |-> speaker_id, font_family |-> font_family,
     position |-> position, text_effect |-> effect, animation |-> animation,
     font_size |-> size, primary_color |-> color]

\* the attributes of a style the parser sets from these keys
ParsedStyle(font_family, font_size, primary_color, position, text_effect, animation) ==
    [font_family |-> font_family, font_size |-> font_size,
     primary_color |-> primary_color, position |-> position,
     text_effect |-> text_effect, animation |-> animation]

\* config.py:54-96  SpeakerStyle(): the defaults of the dataclass
DataclassStyle ==
    ParsedStyle("FontFamily.IMPACT", IntVal(48), AssWhite,
                SubtitlePosition("MIDDLE_CENTER"), "TextEffect.OUTLINE",
                "AnimationStyle.NONE")

\* api.py:253-293  the exception of SpeakerStyle(...)'s arguments, evaluated in
\* order, or None
StyleRaises(speaker_config) ==
    CASE Unhashable(speaker_config.font_family)     -> "TypeError"
      [] ~IsStr(Get(speaker_config.primary_color, StrVal(AssWhite)))
                                                     -> "AttributeError"
      [] Unhashable(speaker_config.position)        -> "TypeError"
      [] Unhashable(speaker_config.text_effect)     -> "TypeError"
      [] Unhashable(speaker_config.animation)       -> "TypeError"
      [] OTHER                                       -> None

\* api.py:253-293  style = SpeakerStyle(...)
BuildStyle(speaker_config) ==
    ParsedStyle(safe_font_family(Get(speaker_config.font_family, StrVal(<<"Impact">>))),
                Get(speaker_config.font_size, IntVal(48)),
                hex_to_ass_color(Get(speaker_config.primary_color, StrVal(AssWhite)).s),
                safe_position(Get(speaker_config.position, StrVal(<<"bottom_center">>))),
                safe_text_effect(Get(speaker_config.text_effect, StrVal(<<"outline">>))),
                safe_animation(Get(speaker_config.animation, StrVal(<<"none">>))))

\* api.py:195  speaker_config.get('speaker_id', 'default') as a key
SpeakerIdOf(speaker_config) == Get(speaker_config.speaker_id, StrVal(<<"default">>)).s[1]

\* config.py:202-204  add_speaker_style: a new key goes last, a known key
\* keeps its place
add_speaker_style(speaker_styles, speaker_id, style) ==
    IF HasKey(speaker_styles, speaker_id)
       THEN [k \in 1..Len(speaker_styles) |->
                IF speaker_styles[k].id = speaker_id
                   THEN [id |-> speaker_id, style |-> style]
                   ELSE speaker_styles[k]]
       ELSE Append(speaker_styles, [id |-> speaker_id, style |-> style])

\* api.py:191-293  the loop over the speakers: the exception of the first
\* entry that raises, or None
RECURSIVE SpeakersRaise(_)
SpeakersRaise(speakers) ==
    IF speakers = <<>>
       THEN None
       ELSE IF speakers[1].t # "dict"
               THEN "AttributeError"
               ELSE IF StyleRaises(speakers[1]) # None
                       THEN StyleRaises(speakers[1])
                       ELSE SpeakersRaise(Tail(speakers))

\* api.py:191-293  the speaker_styles after the loop
RECURSIVE SpeakerStylesOf(_)
SpeakerStylesOf(speakers) ==
    IF speakers = <<>>
       THEN <<>>
       ELSE LET last == speakers[Len(speakers)]
            IN  add_speaker_style(SpeakerStylesOf(SubSeq(speakers, 1, Len(speakers) - 1)),
                                  SpeakerIdOf(last), BuildStyle(last))

\* api.py:154-300  _parse_subtitle_config
_parse_subtitle_config(d) ==
    LET max_words_value == Get(d.max_words, IntVal(4))
        detect          == d.enable_speaker_detection
        speaker_styles  == SpeakerStylesOf(d.speakers)
        default_style   == IF ~detect /\ speaker_styles # <<>>
                              THEN speaker_styles[1].style
                              ELSE DataclassStyle
    IN  IF SpeakersRaise(d.speakers) # None
           THEN [called |-> TRUE, raises |-> SpeakersRaise(d.speakers)]
           ELSE [called |-> TRUE, raises |-> None,
                 config |-> SubtitleConfig(
                                IF max_words_value = StrVal(<<"full_sentence">>)
                                   THEN IntVal(FullSentence) ELSE max_words_value,
                                speaker_styles, default_style, detect, TRUE, FALSE)]

\* a caller parses its dictionary
Parse ==
    /\ ~parsed.called
    /\ parsed' = _parse_subtitle_config(config_dict)
    /\ UNCHANGED <<config_dict, conversion>>
    /\ OnlyHelpers

\* config.py:116-142  to_ass_style: the fields of the style row that come
\* from the parsed attributes
to_ass_style(style, style_name) ==
    [name |-> style_name, font_size |-> style.font_size,
     primary_color |-> style.primary_color, alignment |-> style.position.value]

\* config.py:206-215  the style rows of a parsed configuration
StyleRows(cfg) ==
    LET rows == get_all_styles_for_ass(cfg)
    IN  [k \in 1..Len(rows) |-> to_ass_style(rows[k].style, rows[k].name)]

\* names of fonts, positions, effects and animations: absent, known, unknown
FontNames == {Missing, StrVal(<<"Arial">>), StrVal(<<"Comic Sans">>)}

PositionNames ==
    {Missing, StrVal(<<"center">>)} \cup {StrVal(name) : name \in DOMAIN pos_map}

EffectNames == {Missing, StrVal(<<"glow">>), StrVal(<<"neon">>)}

AnimationNames == {Missing, StrVal(<<"bounce">>), StrVal(<<"spin">>)}

\* "#ff0000"
WebRed == <<"#", "f", "f", "0", "0", "0", "0">>

\* the first entry of the list
FirstEntries ==
    {SpeakerConfig(StrVal(<<"a">>), font, position, effect, animation, attrs[1], attrs[2]) :
        font \in FontNames, position \in PositionNames, effect \in EffectNames,
        animation \in AnimationNames,
        attrs \in {<<Missing, Missing>>, <<IntVal(30), StrVal(WebRed)>>}}
    \cup {SpeakerConfig(StrVal(<<"a">>), Missing, ListVal(<<"top">>), Missing, Missing,
                        Missing, Missing),
          SpeakerConfig(StrVal(<<"a">>), Missing, NoneVal, IntVal(5), Missing,
                        Missing, Missing),
          SpeakerConfig(StrVal(<<"a">>), Missing, Missing, Missing, Missing,
                        Missing, IntVal(5)),
          NotADict("int")}

\* the entries behind it: the same speaker again, another speaker, no id
SecondEntries ==
    {SpeakerConfig(StrVal(<<"a">>), Missing, StrVal(<<"top_center">>), Missing, Missing,
                   Missing, Missing),
     SpeakerConfig(StrVal(<<"b">>), StrVal(<<"Anton">>), StrVal(<<"top_right">>),
                   Missing, Missing, Missing, Missing),
     SpeakerConfig(Missing, Missing, Missing, Missing, Missing, Missing, Missing)}

ParsedDicts ==
    {[max_words |-> max_words, enable_speaker_detection |-> detect, speakers |-> speakers] :
        max_words \in {Missing, IntVal(2), StrVal(<<"full_sentence">>)},
        detect \in BOOLEAN,
        speakers \in {<<>>} \cup {<<e>> : e \in FirstEntries}
                      \cup {<<e, f>> : e \in FirstEntries, f \in SecondEntries}}

InitParse ==
    /\ SubtitlesIdle
    /\ WebIdle
    /\ jobs = <<>>
    /\ tempdir = {}
    /\ validation = NotCalled
    /\ conversion = NotConverted
    /\ parsed = NotParsed
    /\ config_dict \in ParsedDicts

SpecParse == InitParse /\ [][Parse]_vars

\* a string that is not a key of the map
UnknownName(map, name) == name.t = "str" /\ name.s \notin DOMAIN map

\* every entry is a dictionary whose four names are strings or absent and
\* whose colour is a string or absent
NamedEntries(d) ==
    \A k \in 1..Len(d.speakers) :
        /\ d.speakers[k].t = "dict"
        /\ \A value \in {d.speakers[k].font_family, d.speakers[k].position,
                         d.speakers[k].text_effect, d.speakers[k].animation,
                         d.speakers[k].primary_color} :
              value.t \in {"str", "missing"}

\* entry k is the last one of its speaker
LastOfSpeaker(speakers, k) ==
    \A j \in (k + 1)..Len(speakers) : SpeakerIdOf(speakers[j]) # SpeakerIdOf(speakers[k])

(* C22: _parse_subtitle_config does not raise for speaker entries whose    *)
(* font_family, position, text_effect or animation is not a recognized      *)
(* name; the style of such an entry has Impact for an unknown font,         *)
(* bottom-center for an unknown position, outline for an unknown effect and *)
(* none for an unknown animation, and its font size and colour are those of *)
(* the entry.                                                               *)
C22_UnknownNamesFallBack ==
    (parsed.called /\ NamedEntries(config_dict)) =>
        /\ parsed.raises = None
        /\ \A k \in 1..Len(config_dict.speakers) :
              LET entry == config_dict.speakers[k]
                  style == Lookup(parsed.config.speaker_styles, SpeakerIdOf(entry))
              IN  LastOfSpeaker(config_dict.speakers, k) =>
                     /\ UnknownName(font_map, entry.font_family) =>
                           style.font_family = "FontFamily.IMPACT"
                     /\ UnknownName(pos_map, entry.position) =>
                           style.position = [name |-> "BOTTOM_CENTER", value |-> 2]
                     /\ UnknownName(effect_map, entry.text_effect) =>
                           style.text_effect = "TextEffect.OUTLINE"
                     /\ UnknownName(anim_map, entry.animation) =>
                           style.animation = "AnimationStyle.NONE"
                     /\ entry.font_size # Missing => style.font_size = entry.font_size
                     /\ entry.primary_color = StrVal(WebRed) =>
                           style.primary_color = <<"&", "H", "0", "0", "0", "0", "0", "0", "F", "F">>
                     /\ entry.primary_color = Missing => style.primary_color = AssWhite

\* an entry with four unknown names, a font size and a colour was parsed
C22_Witness ==
    /\ parsed.called
    /\ NamedEntries(config_dict)
    /\ \E k \in 1..Len(config_dict.speakers) :
          /\ LastOfSpeaker(config_dict.speakers, k)
          /\ UnknownName(font_map, config_dict.speakers[k].font_family)
          /\ UnknownName(pos_map, config_dict.speakers[k].position)
          /\ UnknownName(effect_map, config_dict.speakers[k].text_effect)
          /\ UnknownName(anim_map, config_dict.speakers[k].animation)
          /\ config_dict.speakers[k].font_size = IntVal(30)
          /\ config_dict.speakers[k].primary_color = StrVal(WebRed)

\* the alignment code of each position name
AlignmentCode ==
    <<"bottom_left">> :> 1 @@ <<"bottom_center">> :> 2 @@ <<"bottom_right">> :> 3 @@
    <<"middle_left">> :> 9 @@ <<"middle_center">> :> 5 @@ <<"middle_right">> :> 6 @@
    <<"top_left">> :> 7 @@ <<"top_center">> :> 8 @@ <<"top_right">> :> 9

\* the style row with this name
RowNamed(rows, name) == rows[CHOOSE k \in 1..Len(rows) : rows[k].name = name]

(* C24: the alignment of a style row is 1, 2, 3 for bottom-left, -center,  *)
(* -right, 9, 5, 6 for middle-left, -center, -right, 7 and 8 for top-left   *)
(* and top-center, and 9 for top-right, the code of middle-left; this holds *)
(* for the Speaker_ row of an entry and for the Default row that is taken   *)
(* from the first speaker when speaker detection is off.                    *)
C24_AlignmentCodes ==
    (parsed.called /\ parsed.raises = None) =>
        LET speakers == config_dict.speakers
            rows     == StyleRows(parsed.config)
        IN  \A k \in 1..Len(speakers) :
                (/\ LastOfSpeaker(speakers, k)
                 /\ speakers[k].position.t = "str"
                 /\ speakers[k].position.s \in DOMAIN AlignmentCode) =>
                    /\ RowNamed(rows, SpeakerStyleName(SpeakerIdOf(speakers[k]))).alignment
                           = AlignmentCode[speakers[k].position.s]
                    /\ (/\ ~config_dict.enable_speaker_detection
                        /\ SpeakerIdOf(speakers[k]) = SpeakerIdOf(speakers[1])) =>
                           RowNamed(rows, "Default").alignment
                               = AlignmentCode[speakers[k].position.s]

\* middle-left was parsed and written to the Default row and to its Speaker_ row
C24_Witness ==
    /\ parsed.called
    /\ parsed.raises = None
    /\ ~config_dict.enable_speaker_detection
    /\ Len(config_dict.speakers) = 1
    /\ config_dict.speakers[1].position = StrVal(<<"middle_left">>)
    /\ \A k \in 1..2 : StyleRows(parsed.config)[k].alignment = 9

(* C25 as stated: a configuration whose only unusual value is              *)
(* max_words = "full_sentence", which the parser accepts as sentence mode,  *)
(* is reported as valid by validate_config.                                 *)
C25_FullSentenceIsValid ==
    (/\ validation.called
     /\ config_dict.max_words = StrVal(<<"full_sentence">>)
     /\ config_dict.speakers.t = "missing") =>
        /\ validation.raises = None
        /\ validation.valid

\* input i of the batch has been processed to its end
Processed(i) ==
    \/ i < input
    \/ i = input /\ pc \in {"done", "returned"}

(* C26 as stated: two different inputs that one call has processed do not  *)
(* share the path of their extracted audio, and the track file of a        *)
(* processed input is still the one written for that input: no later input *)
(* of the batch has overwritten it.                                        *)
C26_NoOverwrite ==
    /\ \A i, j \in 1..Len(audio_paths) :
          (i # j /\ Processed(i) /\ Processed(j)) =>
              WavPath(audio_paths[i].base_name) # WavPath(audio_paths[j].base_name)
    /\ \A i \in 1..Len(audio_paths) :
          Processed(i) => files[AssPath(audio_paths[i].base_name)].by = i

-----------------------------------------------------------------------------
(* The web application (webapp.py): one uploaded job, its record in Redis, *)
(* its directory, its background task, a delete request and the cleanup     *)

\* the latest time
MaxTime == 4

\* webapp.py:55  FILE_RETENTION, in units of the clock
Retention == 2

\* webapp.py:157-165  a JobStatus stored with setex: it expires Retention
\* after the write
JobStatus(status, results, error) ==
    [exists |-> TRUE, status |-> status, result |-> results, error |-> error,
     expires |-> clock + Retention]

\* the get_subtitles machine, the API calls and the helpers stand still
OnlyWeb ==
    UNCHANGED <<config, result, pc, seg, pos, current_sentence, subtitle_groups,
                gi, styles, events, origin, srt, batchVars, files, jobs, tempdir,
                config_dict, validation, helperVars>>

\* webapp.py:311-335  the file is no video or the configuration does not
\* validate: HTTP 400
UploadRejects ==
    /\ upload.pc = "received"
    /\ ~(upload.file_ok /\ upload.config_ok)
    /\ upload' = [upload EXCEPT !.pc = "rejected"]
    /\ UNCHANGED <<clock, redis, jobdir, task, deletion, response>>
    /\ OnlyWeb

\* webapp.py:337-338, 172-181  create_job: the record is stored as pending
CreateJob ==
    /\ upload.pc = "received"
    /\ upload.file_ok /\ upload.config_ok
    /\ redis' = JobStatus("pending", None, None)
    /\ upload' = [upload EXCEPT !.pc = "created"]
    /\ UNCHANGED <<clock, jobdir, task, deletion, response>>
    /\ OnlyWeb

\* webapp.py:342-343  os.makedirs(job_dir, exist_ok=True)
MakeJobDir ==
    /\ upload.pc = "created"
    /\ jobdir' = IF jobdir.exists THEN jobdir
                 ELSE [exists |-> TRUE, ctime |-> clock, input |-> FALSE,
                       output |-> FALSE, files |-> FALSE]
    /\ upload' = [upload EXCEPT !.pc = "made"]
    /\ UNCHANGED <<clock, redis, task, deletion, response>>
    /\ OnlyWeb

\* webapp.py:346-349  the uploaded video is written into the job directory
SaveVideo ==
    /\ upload.pc = "made"
    /\ jobdir.exists
    /\ jobdir' = [jobdir EXCEPT !.input = TRUE, !.ctime = clock]
    /\ upload' = [upload EXCEPT !.pc = "saved"]
    /\ UNCHANGED <<clock, redis, task, deletion, response>>
    /\ OnlyWeb

\* webapp.py:346-349, 372  reading or writing the upload raises
SaveRaises ==
    /\ upload.pc = "made"
    /\ upload' = [upload EXCEPT !.pc = "except"]
    /\ UNCHANGED <<clock, redis, jobdir, task, deletion, response>>
    /\ OnlyWeb

\* webapp.py:351-352  os.makedirs(output_dir, exist_ok=True), parents included
MakeOutputDir ==
    /\ upload.pc = "saved"
    /\ jobdir' = IF jobdir.exists
                    THEN [jobdir EXCEPT !.output = TRUE,
                                        !.ctime = IF jobdir.output THEN @ ELSE clock]
                    ELSE [exists |-> TRUE, ctime |-> clock, input |-> FALSE,
                          output |-> TRUE, files |-> FALSE]
    /\ upload' = [upload EXCEPT !.pc = "outdir"]
    /\ UNCHANGED <<clock, redis, task, deletion, response>>
    /\ OnlyWeb

\* webapp.py:355-369  process_video_task.delay(...) and the answer "accepted"
Dispatch ==
    /\ upload.pc = "outdir"
    /\ task' = [task EXCEPT !.pc = "queued"]
    /\ upload' = [upload EXCEPT !.pc = "accepted"]
    /\ UNCHANGED <<clock, redis, jobdir, deletion, response>>
    /\ OnlyWeb

\* webapp.py:355, 372  .delay raises: nothing was dispatched
DispatchRaises ==
    /\ upload.pc = "outdir"
    /\ upload' = [upload EXCEPT !.pc = "except"]
    /\ UNCHANGED <<clock, redis, jobdir, task, deletion, response>>
    /\ OnlyWeb

\* webapp.py:373-376  the except branch removes the job directory
UploadRmtree ==
    /\ upload.pc = "except"
    /\ jobdir' = NoDir
    /\ upload' = [upload EXCEPT !.pc = "rmtree"]
    /\ UNCHANGED <<clock, redis, task, deletion, response>>
    /\ OnlyWeb

\* the except branch without delete_job
UploadKeepsRecord ==
    /\ upload.pc = "rmtree"
    /\ upload' = [upload EXCEPT !.pc = "failed"]
    /\ UNCHANGED <<clock, redis, jobdir, task, deletion, response>>
    /\ OnlyWeb

\* webapp.py:377-380  job_manager.delete_job(job_id), then HTTP 500
UploadDeleteJob ==
    /\ upload.pc = "rmtree"
    /\ redis' = NoRecord
    /\ upload' = [upload EXCEPT !.pc = "failed"]
    /\ UNCHANGED <<clock, jobdir, task, deletion, response>>
    /\ OnlyWeb

\* webapp.py:190-191  update_job reads the record with get_job
UpdateGet(from, to) ==
    /\ task.pc = from
    /\ task' = [pc |-> to, job |-> redis]
    /\ UNCHANGED <<clock, redis, jobdir, upload, deletion, response>>
    /\ OnlyWeb

\* webapp.py:192-195  update_job sets the fields on what it read and stores
\* it with setex, if it read a record
UpdateSet(from, to, status, results, error) ==
    /\ task.pc = from
    /\ redis' = IF task.job.exists THEN JobStatus(status, results, error) ELSE redis
    /\ task' = [pc |-> to, job |-> NoRecord]
    /\ UNCHANGED <<clock, jobdir, upload, deletion, response>>
    /\ OnlyWeb

\* webapp.py:207  update_job(job_id, status="processing", ...)
GetForProcessing == UpdateGet("queued", "got_pending")

SetProcessing ==
    UpdateSet("got_pending", "processing", "processing", task.job.result, task.job.error)

\* webapp.py:210-215, api.py:54-152  process_video returns its results: the
\* video of the job directory was read and the outputs written
ProcessReturns ==
    /\ task.pc = "processing"
    /\ jobdir.exists /\ jobdir.input
    /\ jobdir' = [jobdir EXCEPT !.output = TRUE, !.files = TRUE]
    /\ task' = [task EXCEPT !.pc = "processed"]
    /\ UNCHANGED <<clock, redis, upload, deletion, response>>
    /\ OnlyWeb

\* webapp.py:210-215, 229, api.py:54  process_video raises, after its
\* os.makedirs(output_dir, exist_ok=True)
ProcessRaises ==
    /\ task.pc = "processing"
    /\ jobdir' = IF jobdir.exists
                    THEN [jobdir EXCEPT !.output = TRUE,
                                        !.ctime = IF jobdir.output THEN @ ELSE clock]
                    ELSE [exists |-> TRUE, ctime |-> clock, input |-> FALSE,
                          output |-> TRUE, files |-> FALSE]
    /\ task' = [task EXCEPT !.pc = "excepted"]
    /\ UNCHANGED <<clock, redis, upload, deletion, response>>
    /\ OnlyWeb

\* webapp.py:217-224  update_job(job_id, status="completed", ..., result=results)
GetForCompleted == UpdateGet("processed", "got_processing")

\* webapp.py:217-227  ... and `return results`
SetCompleted ==
    UpdateSet("got_processing", "returned", "completed", "results", task.job.error)

\* webapp.py:229-238  update_job(job_id, status="failed", ..., error=str(e))
GetForFailed == UpdateGet("excepted", "got_excepted")

\* the except branch stores the error and leaves the status alone
SetErrorOnly ==
    UpdateSet("got_excepted", "raised", task.job.status, task.job.result, "str(e)")

\* webapp.py:231-239  ... and `raise`
SetFailed == UpdateSet("got_excepted", "raised", "failed", task.job.result, "str(e)")

\* webapp.py:424-428  delete_job looks the job up; the id is known to the
\* client once the upload was accepted
DeleteGet ==
    /\ upload.pc = "accepted"
    /\ deletion = "none"
    /\ deletion' = IF redis.exists THEN "found" ELSE "not found"
    /\ UNCHANGED <<clock, redis, jobdir, upload, task, response>>
    /\ OnlyWeb

\* webapp.py:430-433  shutil.rmtree(job_dir, ignore_errors=True)
DeleteRmtree ==
    /\ deletion = "found"
    /\ jobdir' = NoDir
    /\ deletion' = "removed"
    /\ UNCHANGED <<clock, redis, upload, task, response>>
    /\ OnlyWeb

\* webapp.py:435-439, 196-197  job_manager.delete_job: redis.delete
DeleteRecord ==
    /\ deletion = "removed"
    /\ redis' = NoRecord
    /\ deletion' = "deleted"
    /\ UNCHANGED <<clock, jobdir, upload, task, response>>
    /\ OnlyWeb

\* webapp.py:388-422  what download_file answers
download_file ==
    CASE ~redis.exists                       -> "404 Job not found"
      [] redis.status # "completed"          -> "400 Job not completed yet"
      [] ~(jobdir.exists /\ jobdir.output)   -> "404 Output files not found"
      [] ~jobdir.files                       -> "404 File type not found"
      [] OTHER                               -> "200"

\* a client that got its job id asks for a file
Download ==
    /\ upload.pc = "accepted"
    /\ response' = download_file
    /\ response' # response
    /\ UNCHANGED <<clock, redis, jobdir, upload, task, deletion>>
    /\ OnlyWeb

\* webapp.py:447-465, 479-484  cleanup_expired_jobs (periodic, or POST
\* /api/cleanup) removes a directory created before now - FILE_RETENTION
CleanupExpired ==
    /\ jobdir.exists
    /\ jobdir.ctime < clock - Retention
    /\ jobdir' = NoDir
    /\ UNCHANGED <<clock, redis, upload, task, deletion, response>>
    /\ OnlyWeb

\* time passes; Redis drops a value whose time to live is over
Tick ==
    /\ clock < MaxTime
    /\ clock' = clock + 1
    /\ redis' = IF redis.exists /\ redis.expires <= clock + 1 THEN NoRecord ELSE redis
    /\ UNCHANGED <<jobdir, upload, task, deletion, response>>
    /\ OnlyWeb

Web ==
    \/ UploadRejects \/ CreateJob \/ MakeJobDir \/ SaveVideo \/ SaveRaises
    \/ MakeOutputDir \/ Dispatch \/ DispatchRaises \/ UploadRmtree \/ UploadDeleteJob
    \/ GetForProcessing \/ SetProcessing \/ ProcessReturns \/ ProcessRaises
    \/ GetForCompleted \/ SetCompleted \/ GetForFailed \/ SetFailed
    \/ DeleteGet \/ DeleteRmtree \/ DeleteRecord
    \/ Download \/ CleanupExpired \/ Tick

\* an upload request has arrived
InitWeb ==
    /\ SubtitlesIdle
    /\ jobs = <<>>
    /\ tempdir = {}
    /\ config_dict = None
    /\ validation = NotCalled
    /\ conversion = NotConverted
    /\ parsed = NotParsed
    /\ clock = 0
    /\ redis = NoRecord
    /\ jobdir = NoDir
    /\ \E file_ok \in BOOLEAN, config_ok \in BOOLEAN :
          upload = [pc |-> "received", file_ok |-> file_ok, config_ok |-> config_ok]
    /\ task = [pc |-> "none", job |-> NoRecord]
    /\ deletion = "none"
    /\ response = "none"

SpecWeb == InitWeb /\ [][Web]_vars

(* C27 as stated: once delete_job has removed the record of the job,       *)
(* get_job returns nothing from then on, whatever the background task of    *)
(* the job does in between: update_job never stores the record again.       *)
C27_DeletedStaysDeleted == deletion = "deleted" => ~redis.exists

\* the status may go from -> to
StatusStep(from, to) ==
    <<from, to>> \in {<<"pending", "processing">>, <<"processing", "completed">>,
                      <<"processing", "failed">>}

(* C28: the stored status only changes pending -> processing -> completed  *)
(* or pending -> processing -> failed, so a completed or failed record      *)
(* keeps its status; when process_video_task has returned, the record, if   *)
(* there is one, is completed and has a result; when it has re-raised, the  *)
(* record, if there is one, is failed and has the error text.               *)
C28_StatusLifecycle ==
    /\ [][(redis.exists /\ redis'.exists /\ redis'.status # redis.status) =>
             StatusStep(redis.status, redis'.status)]_vars
    /\ []((task.pc = "returned" /\ redis.exists) =>
             (redis.status = "completed" /\ redis.result # None))
    /\ []((task.pc = "raised" /\ redis.exists) =>
             (redis.status = "failed" /\ redis.error # None))

\* the task has re-raised and the record of the job is there
C28_Witness ==
    /\ task.pc = "raised"
    /\ redis.exists
    /\ redis.status = "failed"

(* C29 as stated, for a job that nobody asked to delete: while get_job     *)
(* returns the job as completed its output directory exists and             *)
(* download_file serves it; and the directory of an accepted job, which     *)
(* only cleanup_expired_jobs can then have removed, is gone only when the   *)
(* record of the job is gone.                                               *)
C29_CompletedIsDownloadable ==
    /\ (deletion = "none" /\ redis.exists /\ redis.status = "completed") =>
           (jobdir.exists /\ jobdir.output /\ download_file = "200")
    /\ (deletion = "none" /\ upload.pc = "accepted" /\ ~jobdir.exists) =>
           ~redis.exists

(* C30: when upload_video has answered with its error after the record was *)
(* created, there is no record and no directory of the job and its task was *)
(* never dispatched; when the file or the configuration was rejected, no    *)
(* record was created.                                                      *)
C30_FailedUploadLeavesNothing ==
    /\ upload.pc = "failed" => (~redis.exists /\ ~jobdir.exists /\ task.pc = "none")
    /\ upload.pc = "rejected" => (~redis.exists /\ ~jobdir.exists /\ task.pc = "none")

\* the upload failed after the video had been saved
C30_Witness ==
    /\ upload.pc = "failed"
    /\ upload.file_ok /\ upload.config_ok
    /\ clock > 0

-----------------------------------------------------------------------------
(* The whole program *)

\* every input family of get_subtitles, the concurrent jobs and the validator
Init == InitChunk \/ InitStyle \/ InitEvents \/ InitBatch \/ InitJobs \/ InitValidate \/
        InitColor \/
        InitParse \/
        InitWeb

Spec == Init /\ [][Next \/ ProcessVideo \/ Validate \/ Convert \/ Parse \/ Web]_vars

====
